---- MODULE Spec2Model ----
(***************************************************************************)
(* Verification model of the trading-signals repository: the signal        *)
(* aggregator (calculateCombinedSignal), the alert rule evaluators         *)
(* (checkAlertConditions, shouldSendAlert) and the alert-check request     *)
(* handlers with their stores.                                             *)
(*                                                                         *)
(* Units.  Fear/greed is an integer 0..100.  Funding rates are counted in  *)
(* hundredths of a percent (0.1% = 10, -0.05% = -5), long/short ratios in  *)
(* tenths (3.5 = 35, 0.5 = 5), 24h price change in whole percent, time in  *)
(* minutes.                                                                *)
(***************************************************************************)
EXTENDS Integers, Sequences, FiniteSets, TLC

VARIABLES
    \* ---- calculateCombinedSignal ----
    aggPc,          \* "off" | "forEach" | "done"
    results,        \* results of indicators.map(...): how many carry each signal
    totalScore,     \* let totalScore
    bullishCount,   \* let bullishCount
    bearishCount,   \* let bearishCount
    neutralCount,   \* let neutralCount
    combined,       \* the returned CombinedSignal (overall, score), or None
    \* ---- checkAlertConditions / shouldSendAlert as pure functions ----
    rulePc,         \* "off" | "ready" | "done"
    ruleIn,         \* [config, data] handed to the evaluator, or None
    ruleOut,        \* the evaluator's return value, or None
    \* ---- alert-check handlers, their stores and their surroundings ----
    variant,        \* "supabase" (durable store) | "memory" (module variables) | "off"
    env,            \* process.env: which of the settings are present
    configRows,     \* signalpulse_alert_configs of user 'default' / let alertConfig
    now,            \* the clock, in minutes
    history,        \* signalpulse_alert_history in insertion order / let alertHistory
    lastAlertTime,  \* let lastAlertTime of the in-memory store
    snapshots,      \* number of rows of signalpulse_market_snapshots
    deliveries,     \* number of notifications Telegram has accepted
    pc,             \* where each request stands in its handler
    loc,            \* the local constants of each request's handler
    started,        \* number of requests received so far
    overlapping,    \* whether the scheduler lets requests overlap
    audit,          \* per history entry: when its writer read the last-alert time
    \* ---- useIndicators ----
    hookPc,         \* "off" | "unmounted" | "rendered" | "loaded"
    indicators,     \* useState<Indicator[]>([])
    isLoaded,       \* useState(false)
    storage,        \* localStorage item 'enabled-indicators': absent or a list of ids
    signal,         \* the CombinedSignal calculateSignal last returned, if held
    \* ---- Indicator.calculate as a pure function ----
    indPc,          \* "off" | "ready" | "done"
    prices,         \* the price series handed to calculate
    volumes,        \* the volumes handed to calculate, if any
    indOut,         \* the IndicatorResult returned, if any
    \* ---- fetchMarketSentiment ----
    upstream,       \* what the upstream services answer, if they are asked
    marketSentiment, \* the MarketSentiment returned, if any
    \* ---- /api/alerts/config ----
    cfgEnv,         \* process.env of the endpoint: which settings are present
    cfgRow,         \* the row of user 'default' in signalpulse_alert_configs, if any
    cfgResponse,    \* the last response of the endpoint, if any
    \* ---- useWatchlist ----
    wlPc,           \* "off" | "unmounted" | "rendered" | "loaded"
    watchlist,      \* useState<WatchlistEntry[]>([])
    wlIsLoaded,     \* useState(false)
    wlStorage,      \* localStorage item 'watchlist': absent or the JSON text of a list
    wlNow           \* the clock new Date() reads, in appended entries

aggVars  == <<aggPc, results, totalScore, bullishCount, bearishCount, neutralCount, combined>>
ruleVars == <<rulePc, ruleIn, ruleOut>>
cycleVars == <<variant, env, configRows, now, history, lastAlertTime,
               snapshots, deliveries, pc, loc, started, overlapping, audit>>
hookVars == <<hookPc, indicators, isLoaded, storage, signal>>
\* The variables of the parts of the program added after the three above.
indVars  == <<indPc, prices, volumes, indOut>>
sentVars == <<upstream, marketSentiment>>
cfgVars == <<cfgEnv, cfgRow, cfgResponse>>
wlVars  == <<wlPc, watchlist, wlIsLoaded, wlStorage, wlNow>>
restVars == <<hookVars, indVars, sentVars, cfgVars, wlVars>>
vars     == <<aggVars, ruleVars, cycleVars, restVars>>

None == "none"

Abs(x) == IF x < 0 THEN -x ELSE x

(***************************************************************************)
(* Signal aggregator                                                       *)
(***************************************************************************)

\* Largest number of indicator results handed to the aggregator.
MaxIndicators == 23

Signals == {"strong_buy", "buy", "neutral", "sell", "strong_sell"}

\* Mutant of signalWeights: a strong signal weighs no more than a plain one.
signalWeights_flat(s) ==
    CASE s = "strong_buy"  -> 1
      [] s = "buy"         -> 1
      [] s = "neutral"     -> 0
      [] s = "sell"        -> -1
      [] s = "strong_sell" -> -1

\* signalWeights: Record<SignalStrength, number>
signalWeights(s) ==
    CASE s = "strong_buy"  -> 2
      [] s = "buy"         -> 1
      [] s = "neutral"     -> 0
      [] s = "sell"        -> -1
      [] s = "strong_sell" -> -2

\* Mutant of BullishInc: the tally grows by the weight of the signal.
BullishInc_weight(s) == IF s = "strong_buy" THEN 2 ELSE IF s = "buy" THEN 1 ELSE 0

\* if (strong_buy || buy) bullishCount++
BullishInc(s) == IF s = "strong_buy" \/ s = "buy" THEN 1 ELSE 0

\* else if (strong_sell || sell) bearishCount++
BearishInc(s) ==
    IF s = "strong_buy" \/ s = "buy" THEN 0
    ELSE IF s = "strong_sell" \/ s = "sell" THEN 1 ELSE 0

\* else neutralCount++
NeutralInc(s) ==
    IF s = "strong_buy" \/ s = "buy" THEN 0
    ELSE IF s = "strong_sell" \/ s = "sell" THEN 0 ELSE 1

\* Mutant of MaxScoreOf: the factor 2 of the strongest weight is forgotten.
MaxScoreOf_single(n) == n

\* const maxScore = indicators.length * 2
MaxScoreOf(n) == n * 2

\* normalizedScore = (totalScore / maxScore) * 100 is a double.  It is kept as
\* the exact fraction 100 * total / maxScore; the comparisons below are the
\* comparisons of that fraction with the cutoffs (maxScore > 0).
NormGE(total, maxScore, c) == IF maxScore > 0 THEN 100 * total >= c * maxScore ELSE 0 >= c
NormLE(total, maxScore, c) == IF maxScore > 0 THEN 100 * total <= c * maxScore ELSE 0 <= c

\* The if / else-if chain choosing `overall` from normalizedScore.
OverallOf(total, maxScore) ==
    IF NormGE(total, maxScore, 50) THEN "strong_buy"
    ELSE IF NormGE(total, maxScore, 20) THEN "buy"
    ELSE IF NormLE(total, maxScore, -50) THEN "strong_sell"
    ELSE IF NormLE(total, maxScore, -20) THEN "sell"
    ELSE "neutral"

\* Inputs whose exact quotient is a tie k + 1/2 but whose double product
\* (totalScore / maxScore) * 100 lands just below the tie, so that Math.round
\* goes down: (-11 / 40) * 100 = -27.500000000000004 and
\* (23 / 40) * 100 = 57.49999999999999.  These are the only such inputs for
\* up to 39 indicators; every other product rounds as its exact value does.
DoubleBelowTie(total, maxScore) ==
    maxScore = 40 /\ total \in {-11, 23}

\* Math.round(normalizedScore): nearest integer, ties toward +infinity.
MathRound(total, maxScore) ==
    IF maxScore > 0
    THEN ((200 * total + maxScore) \div (2 * maxScore))
         - (IF DoubleBelowTie(total, maxScore) THEN 1 ELSE 0)
    ELSE 0

NumResults == results["strong_buy"] + results["buy"] + results["neutral"]
              + results["sell"] + results["strong_sell"]

AggIdle ==
    /\ aggPc = "off"
    /\ results = [s \in Signals |-> 0]
    /\ totalScore = 0 /\ bullishCount = 0 /\ bearishCount = 0 /\ neutralCount = 0
    /\ combined = None

\* calculateCombinedSignal entered: counters at 0, no result visited yet.
AggInit ==
    /\ aggPc = "forEach"
    /\ results = [s \in Signals |-> 0]
    /\ totalScore = 0 /\ bullishCount = 0 /\ bearishCount = 0 /\ neutralCount = 0
    /\ combined = None

\* One iteration of results.forEach: the next result carries signal s.
ForEachResult(s) ==
    /\ aggPc = "forEach"
    /\ NumResults < MaxIndicators
    /\ results' = [results EXCEPT ![s] = @ + 1]
    /\ totalScore' = totalScore + signalWeights(s)
    /\ bullishCount' = bullishCount + BullishInc(s)
    /\ bearishCount' = bearishCount + BearishInc(s)
    /\ neutralCount' = neutralCount + NeutralInc(s)
    /\ UNCHANGED <<aggPc, combined>>
    /\ UNCHANGED <<ruleVars, cycleVars, restVars>>

\* The list is exhausted: normalise, classify, round and return.
ReturnCombined ==
    /\ aggPc = "forEach"
    /\ LET maxScore == MaxScoreOf(NumResults) IN
       combined' = [overall |-> OverallOf(totalScore, maxScore),
                    score |-> MathRound(totalScore, maxScore),
                    bullishCount |-> bullishCount,
                    bearishCount |-> bearishCount,
                    neutralCount |-> neutralCount,
                    indicators |-> NumResults]
    /\ aggPc' = "done"
    /\ UNCHANGED <<results, totalScore, bullishCount, bearishCount, neutralCount>>
    /\ UNCHANGED <<ruleVars, cycleVars, restVars>>

NextAgg ==
    \/ \E s \in Signals : ForEachResult(s)
    \/ ReturnCombined

(***************************************************************************)
(* Alert rule evaluators                                                   *)
(***************************************************************************)

\* An optional number: <<>> when the snapshot does not carry the metric
\* (undefined), <<v>> when it carries the value v.
Undefined == <<>>
Some(v) == <<v>>
Val(x) == x[1]
OptionalOf(S) == {Undefined} \cup {Some(v) : v \in S}

\* Number.prototype.toFixed(digits) of a value counted in 1/units
\* (units = 1, 10 or 100): sign, integer part and the fraction printed with
\* `digits` digits.
ToFixed(v, units, digits) ==
    [neg |-> v < 0,
     int |-> Abs(v) \div units,
     frac |-> (Abs(v) % units) * ((10 ^ digits) \div units),
     digits |-> digits]

\* A template literal: the text before the value, the printed value, the text
\* after it.
Reason(before, value, after) == [before |-> before, value |-> value, after |-> after]

Alert(type, reason) == [shouldSend |-> TRUE, alertType |-> type, reason |-> reason]

NoExtremeConditions ==
    [shouldSend |-> FALSE, alertType |-> "INFO",
     reason |-> Reason("No extreme conditions", None, "")]

\* Mutant of CheckPriceChange: the rally is compared with the threshold
\* itself.
CheckPriceChange_sameMultiple(config, data) ==
    IF config.price_change_enabled /\ data.priceChange24h # Undefined
    THEN IF Val(data.priceChange24h) <= -config.price_change_threshold
         THEN Alert("BUY", Reason("Large Price Drop (",
                                  ToFixed(Val(data.priceChange24h), 1, 2), "%)"))
         ELSE IF Val(data.priceChange24h) >= config.price_change_threshold
         THEN Alert("CAUTION", Reason("Large Price Rally (",
                                      ToFixed(Val(data.priceChange24h), 1, 2),
                                      "%) - Consider taking profits"))
         ELSE NoExtremeConditions
    ELSE NoExtremeConditions

\* Priority 4: Large Price Movements.  price_change_threshold * 1.5 is
\* compared exactly: x >= 1.5 * t  iff  2 * x >= 3 * t.
CheckPriceChange(config, data) ==
    IF config.price_change_enabled /\ data.priceChange24h # Undefined
    THEN IF Val(data.priceChange24h) <= -config.price_change_threshold
         THEN Alert("BUY", Reason("Large Price Drop (",
                                  ToFixed(Val(data.priceChange24h), 1, 2), "%)"))
         ELSE IF 2 * Val(data.priceChange24h) >= 3 * config.price_change_threshold
         THEN Alert("CAUTION", Reason("Large Price Rally (",
                                      ToFixed(Val(data.priceChange24h), 1, 2),
                                      "%) - Consider taking profits"))
         ELSE NoExtremeConditions
    ELSE NoExtremeConditions

\* Mutant of CheckLongShort: the rule is tried whatever its flag says.
CheckLongShort_ignoringFlag(config, data) ==
    IF data.longShortRatio # Undefined
    THEN IF Val(data.longShortRatio) <= config.long_short_low_threshold
         THEN Alert("BUY", Reason("Crowded Shorts (L/S: ",
                                  ToFixed(Val(data.longShortRatio), 10, 2),
                                  ") - Squeeze potential"))
         ELSE IF Val(data.longShortRatio) >= config.long_short_high_threshold
         THEN Alert("CAUTION", Reason("Crowded Longs (L/S: ",
                                      ToFixed(Val(data.longShortRatio), 10, 2),
                                      ") - Liquidation risk"))
         ELSE CheckPriceChange(config, data)
    ELSE CheckPriceChange(config, data)

\* Priority 3: Extreme Long/Short Ratios.
CheckLongShort(config, data) ==
    IF config.long_short_extreme /\ data.longShortRatio # Undefined
    THEN IF Val(data.longShortRatio) <= config.long_short_low_threshold
         THEN Alert("BUY", Reason("Crowded Shorts (L/S: ",
                                  ToFixed(Val(data.longShortRatio), 10, 2),
                                  ") - Squeeze potential"))
         ELSE IF Val(data.longShortRatio) >= config.long_short_high_threshold
         THEN Alert("CAUTION", Reason("Crowded Longs (L/S: ",
                                      ToFixed(Val(data.longShortRatio), 10, 2),
                                      ") - Liquidation risk"))
         ELSE CheckPriceChange(config, data)
    ELSE CheckPriceChange(config, data)

\* Priority 2: Extreme Funding Rates.
CheckFundingRate(config, data) ==
    IF config.funding_rate_extreme /\ data.fundingRate # Undefined
    THEN IF Val(data.fundingRate) <= config.funding_rate_low_threshold
         THEN Alert("BUY", Reason("Negative Funding Rate (",
                                  ToFixed(Val(data.fundingRate), 100, 4),
                                  "%) - Shorts paying"))
         ELSE IF Val(data.fundingRate) >= config.funding_rate_high_threshold
         THEN Alert("CAUTION", Reason("High Funding Rate (",
                                      ToFixed(Val(data.fundingRate), 100, 4),
                                      "%) - Overleveraged longs"))
         ELSE CheckLongShort(config, data)
    ELSE CheckLongShort(config, data)

\* Mutant of checkAlertConditions: the funding-rate rule is tried before the
\* fear/greed rule.
checkAlertConditions_fundingFirst(config, data) ==
    IF config.funding_rate_extreme /\ data.fundingRate # Undefined
       /\ (\/ Val(data.fundingRate) <= config.funding_rate_low_threshold
           \/ Val(data.fundingRate) >= config.funding_rate_high_threshold)
    THEN CheckFundingRate(config, data)
    ELSE IF config.fear_greed_extreme /\ data.fearGreed # Undefined
    THEN IF Val(data.fearGreed) <= config.fear_greed_buy_threshold
         THEN Alert("BUY", Reason("Extreme Fear detected (F&G: ", Val(data.fearGreed), ")"))
         ELSE IF Val(data.fearGreed) >= config.fear_greed_sell_threshold
         THEN Alert("SELL", Reason("Extreme Greed detected (F&G: ", Val(data.fearGreed), ")"))
         ELSE CheckLongShort(config, data)
    ELSE CheckLongShort(config, data)

\* checkAlertConditions: the chain of early returns, priority 1 first.
checkAlertConditions(config, data) ==
    IF config.fear_greed_extreme /\ data.fearGreed # Undefined
    THEN IF Val(data.fearGreed) <= config.fear_greed_buy_threshold
         THEN Alert("BUY", Reason("Extreme Fear detected (F&G: ", Val(data.fearGreed), ")"))
         ELSE IF Val(data.fearGreed) >= config.fear_greed_sell_threshold
         THEN Alert("SELL", Reason("Extreme Greed detected (F&G: ", Val(data.fearGreed), ")"))
         ELSE CheckFundingRate(config, data)
    ELSE CheckFundingRate(config, data)

\* shouldSendAlert: the earlier evaluator with the thresholds written into
\* the code (15 / 85, -0.05 / 0.1, 0.5 / 3.5, -10 / 15).
shouldSendAlert(config, data) ==
    IF ~config.enabled
    THEN [shouldSend |-> FALSE, alertType |-> "INFO",
          reason |-> Reason("Alerts disabled", None, "")]
    ELSE IF config.fearGreedExtreme /\ data.fearGreed # Undefined /\ Val(data.fearGreed) <= 15
    THEN Alert("BUY", Reason("Extreme Fear (F&G: ", Val(data.fearGreed), ")"))
    ELSE IF config.fearGreedExtreme /\ data.fearGreed # Undefined /\ Val(data.fearGreed) >= 85
    THEN Alert("SELL", Reason("Extreme Greed (F&G: ", Val(data.fearGreed), ")"))
    ELSE IF config.fundingRateExtreme /\ data.fundingRate # Undefined /\ Val(data.fundingRate) <= -5
    THEN Alert("BUY", Reason("Negative Funding (", ToFixed(Val(data.fundingRate), 100, 4), "%)"))
    ELSE IF config.fundingRateExtreme /\ data.fundingRate # Undefined /\ Val(data.fundingRate) >= 10
    THEN Alert("SELL", Reason("High Funding (", ToFixed(Val(data.fundingRate), 100, 4), "%)"))
    ELSE IF config.longShortExtreme /\ data.longShortRatio # Undefined /\ Val(data.longShortRatio) <= 5
    THEN Alert("BUY", Reason("Crowded Shorts (L/S: ", ToFixed(Val(data.longShortRatio), 10, 2), ")"))
    ELSE IF config.longShortExtreme /\ data.longShortRatio # Undefined /\ Val(data.longShortRatio) >= 35
    THEN Alert("CAUTION", Reason("Crowded Longs (L/S: ", ToFixed(Val(data.longShortRatio), 10, 2), ")"))
    ELSE IF config.priceChange /\ data.priceChange24h # Undefined
    THEN IF Val(data.priceChange24h) <= -10
         THEN Alert("BUY", Reason("Large Drop (", ToFixed(Val(data.priceChange24h), 1, 2), "%)"))
         ELSE IF Val(data.priceChange24h) >= 15
         THEN Alert("CAUTION", Reason("Large Rally (", ToFixed(Val(data.priceChange24h), 1, 2), "%)"))
         ELSE NoExtremeConditions
    ELSE NoExtremeConditions

\* The thresholds of getDefaultConfig.
DefaultThresholds ==
    [fear_greed_buy_threshold |-> 15, fear_greed_sell_threshold |-> 85,
     funding_rate_high_threshold |-> 10, funding_rate_low_threshold |-> -5,
     long_short_high_threshold |-> 35, long_short_low_threshold |-> 5,
     price_change_threshold |-> 10]

\* A second set of thresholds a user may have stored.
CustomThresholds ==
    [fear_greed_buy_threshold |-> 25, fear_greed_sell_threshold |-> 75,
     funding_rate_high_threshold |-> 20, funding_rate_low_threshold |-> -10,
     long_short_high_threshold |-> 30, long_short_low_threshold |-> 7,
     price_change_threshold |-> 5]

\* Thresholds as POST /api/alerts/config accepts them too: the fear/greed
\* buy threshold above the sell threshold.
CrossedThresholds ==
    [DefaultThresholds EXCEPT !.fear_greed_buy_threshold = 85,
                              !.fear_greed_sell_threshold = 15]

ThresholdSets == {DefaultThresholds, CustomThresholds, CrossedThresholds}

RuleFlags ==
    [fear_greed_extreme : BOOLEAN, funding_rate_extreme : BOOLEAN,
     long_short_extreme : BOOLEAN, price_change_enabled : BOOLEAN]

\* The rule part of an AlertConfig row: flags f, thresholds t.
RuleConfig(f, t) ==
    [fear_greed_extreme |-> f.fear_greed_extreme,
     fear_greed_buy_threshold |-> t.fear_greed_buy_threshold,
     fear_greed_sell_threshold |-> t.fear_greed_sell_threshold,
     funding_rate_extreme |-> f.funding_rate_extreme,
     funding_rate_high_threshold |-> t.funding_rate_high_threshold,
     funding_rate_low_threshold |-> t.funding_rate_low_threshold,
     long_short_extreme |-> f.long_short_extreme,
     long_short_high_threshold |-> t.long_short_high_threshold,
     long_short_low_threshold |-> t.long_short_low_threshold,
     price_change_enabled |-> f.price_change_enabled,
     price_change_threshold |-> t.price_change_threshold]

\* The same flags as the AlertConfig of the earlier evaluator.
LegacyConfig(enabled, f) ==
    [enabled |-> enabled,
     fearGreedExtreme |-> f.fear_greed_extreme,
     fundingRateExtreme |-> f.funding_rate_extreme,
     longShortExtreme |-> f.long_short_extreme,
     priceChange |-> f.price_change_enabled]

\* Metric values around the thresholds of both threshold sets.
FearGreedValues  == {10, 15, 16, 50, 85}
FundingValues    == {-5, -4, 10, 20}
LongShortValues  == {5, 20, 35}
PriceChangeValues == {-10, 0, 14, 15}

MetricSnapshots ==
    [fearGreed : OptionalOf(FearGreedValues), fundingRate : OptionalOf(FundingValues),
     longShortRatio : OptionalOf(LongShortValues),
     priceChange24h : OptionalOf(PriceChangeValues)]

RuleIdle == rulePc = "off" /\ ruleIn = None /\ ruleOut = None

\* A configuration and a metric snapshot are handed to an evaluator.
RuleInit ==
    /\ ruleIn \in [flags : RuleFlags, thresholds : ThresholdSets,
                   enabled : BOOLEAN, data : MetricSnapshots]
    /\ ruleOut = None
    /\ rulePc = "ready"

\* checkAlertConditions(config, data) is called.
EvaluateConditions ==
    /\ rulePc = "ready"
    /\ rulePc' = "done"
    /\ ruleOut' = [fn |-> "checkAlertConditions",
                   result |-> checkAlertConditions(
                                 RuleConfig(ruleIn.flags, ruleIn.thresholds), ruleIn.data)]
    /\ UNCHANGED ruleIn
    /\ UNCHANGED <<aggVars, cycleVars, restVars>>

\* shouldSendAlert(config, data) is called.
EvaluateLegacy ==
    /\ rulePc = "ready"
    /\ rulePc' = "done"
    /\ ruleOut' = [fn |-> "shouldSendAlert",
                   result |-> shouldSendAlert(
                                 LegacyConfig(ruleIn.enabled, ruleIn.flags), ruleIn.data)]
    /\ UNCHANGED ruleIn
    /\ UNCHANGED <<aggVars, cycleVars, restVars>>

NextRules ==
    \/ EvaluateConditions
    \/ EvaluateLegacy

(***************************************************************************)
(* Alert-check handlers and their stores                                   *)
(*                                                                         *)
(* Two deployments of the check endpoint exist side by side: the handler   *)
(* over the Supabase store (getAlertConfig / canSendAlert /                *)
(* addAlertToHistory of supabase-alerts.ts, rules of checkAlertConditions) *)
(* and the earlier handler over module variables (alert-storage.ts, rules  *)
(* of shouldSendAlert).  `variant` says which one the process runs.        *)
(*                                                                         *)
(* A handler is cut at its awaits: what runs between two awaits is one     *)
(* action.  The AI analysis call changes nothing but the text of the       *)
(* message and is left out.  Queries on the history table answer; the      *)
(* config table may be unreadable or hold no row.                          *)
(***************************************************************************)

\* The request slots: at most two handlers are in flight at a time.
Procs == {1, 2}

\* Number of requests the model follows.
MaxRequests == 2

\* Minutes the clock advances over.
Horizon == 5

\* min_minutes_between_alerts of the stored configuration: the smallest
\* value the config endpoint accepts.
Cooldown == 5

\* Date.now() lies far beyond the epoch: the clock starts a cooldown after 0.
StartTime == Cooldown
MaxTime == StartTime + Horizon

\* alertHistory.slice(0, 100)
HistoryCap == 100

\* getDefaultConfig(userId), with the fields the handlers read.
getDefaultConfig ==
    [telegram_enabled |-> FALSE, telegram_chat_id |-> FALSE,
     rules |-> RuleConfig([fear_greed_extreme |-> TRUE, funding_rate_extreme |-> TRUE,
                           long_short_extreme |-> TRUE, price_change_enabled |-> TRUE],
                          DefaultThresholds),
     min_minutes_between_alerts |-> 60]

\* A row of signalpulse_alert_configs as a user has stored it
\* (telegram_chat_id: whether one is set).
StoredConfig(enabled, chat) ==
    [getDefaultConfig EXCEPT !.telegram_enabled = enabled,
                             !.telegram_chat_id = chat,
                             !.min_minutes_between_alerts = Cooldown]

\* DEFAULT_CONFIG of the in-memory store, after updateAlertConfig has set
\* `enabled` and minTimeBetweenAlerts.
MemoryConfig(enabled) ==
    [enabled |-> enabled, fearGreedExtreme |-> TRUE, fundingRateExtreme |-> TRUE,
     longShortExtreme |-> TRUE, priceChange |-> TRUE, minTimeBetweenAlerts |-> Cooldown]

\* What fetchMarketSentiment may bring back.
SnapFear ==
    [fearGreed |-> Some(10), fundingRate |-> Some(20),
     longShortRatio |-> Some(20), priceChange24h |-> Some(0)]
SnapCalm ==
    [fearGreed |-> Some(50), fundingRate |-> Some(-4),
     longShortRatio |-> Some(20), priceChange24h |-> Some(0)]
Sentiments == {SnapFear, SnapCalm}

\* The locals of a handler that is not running.  config, sentiment,
\* alertCheck and result hold <<>> until the handler has set them.  cfgRead
\* (how getAlertConfig came by the config), seen (the number of history
\* entries that existed when the last-alert time was read) and wrote (the
\* number of entries the handler added) record what the handler met and did,
\* for the properties below.
NoLocals ==
    [config |-> <<>>, sentiment |-> <<>>, alertCheck |-> <<>>, result |-> <<>>,
     response |-> "", cfgRead |-> "", seen |-> -1, wrote |-> 0]

\* Number of entries ever added to the history.
RowsEver == IF audit = <<>> THEN 0 ELSE
            IF variant = "memory" THEN audit[1].seq ELSE audit[Len(audit)].seq

\* Creation time and delivery flag of a history entry of either store.
CreatedAt(r) == IF variant = "memory" THEN r.timestamp ELSE r.created_at
WasSent(r)   == IF variant = "memory" THEN r.sent ELSE r.telegram_sent

\* The creation time of the newest delivered entry of the history, <<>> if
\* no entry was delivered.
NewestDelivered ==
    LET sent == {i \in 1..Len(history) : WasSent(history[i])}
    IN IF sent = {} THEN <<>>
       ELSE LET i == CHOOSE k \in sent : \A j \in sent :
                        CreatedAt(history[j]) <= CreatedAt(history[k])
            IN <<CreatedAt(history[i])>>

\* .eq('telegram_sent', true).order('created_at', { ascending: false })
\* .limit(1): the rows with telegram_sent, the newest first, cut to one.
RECURSIVE NewestFirst(_)
NewestFirst(rows) ==
    IF rows = <<>> THEN <<>>
    ELSE LET rest == NewestFirst(Tail(rows))
         IN IF rest = <<>> \/ Head(rows).created_at > rest[1].created_at
            THEN <<Head(rows)>> ELSE rest

\* Mutant of getLastAlertTime: the rows of failed deliveries count as well.
getLastAlertTime_anyRow ==
    IF ~env.supabase THEN <<>>
    ELSE LET data == NewestFirst(history)
         IN IF data = <<>> THEN <<>> ELSE <<data[1].created_at>>

\* getLastAlertTime: null without a client or when .single() finds no row.
getLastAlertTime ==
    IF ~env.supabase THEN <<>>
    ELSE LET data == NewestFirst(SelectSeq(history, LAMBDA r : r.telegram_sent))
         IN IF data = <<>> THEN <<>> ELSE <<data[1].created_at>>

\* Mutant of canSendAlert: an elapsed time equal to the minimum is refused.
canSendAlert_strict(lastAlert, minMinutesBetween) ==
    IF lastAlert = <<>> THEN TRUE
    ELSE now - lastAlert[1] > minMinutesBetween

\* Mutant of canSendAlert: the elapsed time is not compared at all.
canSendAlert_open(lastAlert, minMinutesBetween) == TRUE

\* canSendAlert of supabase-alerts.ts, after its await of getLastAlertTime.
canSendAlert(lastAlert, minMinutesBetween) ==
    IF lastAlert = <<>> THEN TRUE
    ELSE now - lastAlert[1] >= minMinutesBetween

\* canSendAlert of alert-storage.ts.
memCanSendAlert(minMinutesBetween) ==
    now - lastAlertTime >= minMinutesBetween

InFlight == {p \in Procs : pc[p] # "idle"}

\* A request is received: the scheduler's runs do not overlap unless
\* `overlapping`.
Admitted ==
    /\ started < MaxRequests
    /\ overlapping \/ InFlight = {}

\* A request takes the lowest free slot.
FreeSlot(p) == pc[p] = "idle" /\ \A q \in Procs : pc[q] = "idle" => p <= q

Finish(p, response, l) ==
    /\ pc' = [pc EXCEPT ![p] = "done"]
    /\ loc' = [loc EXCEPT ![p] = [l EXCEPT !.response = response]]

Goto(p, where, l) ==
    /\ pc' = [pc EXCEPT ![p] = where]
    /\ loc' = [loc EXCEPT ![p] = l]

CycleIdle ==
    /\ variant = "off"
    /\ env = [supabase |-> FALSE, cronSecret |-> FALSE, chatId |-> FALSE]
    /\ configRows = <<>>
    /\ now = StartTime
    /\ history = <<>>
    /\ lastAlertTime = 0
    /\ snapshots = 0
    /\ deliveries = 0
    /\ pc = [p \in Procs |-> "idle"]
    /\ loc = [p \in Procs |-> NoLocals]
    /\ started = 0
    /\ overlapping = FALSE
    /\ audit = <<>>

\* The process has started; nothing has been requested yet.
CycleInit ==
    /\ variant \in {"supabase", "memory"}
    /\ IF variant = "supabase"
       THEN /\ env \in [supabase : BOOLEAN, cronSecret : BOOLEAN, chatId : BOOLEAN]
            /\ configRows \in {<<>>}
                  \cup {<<StoredConfig(e, c)>> : e \in BOOLEAN, c \in BOOLEAN}
       ELSE /\ env \in [supabase : {FALSE}, cronSecret : {FALSE}, chatId : BOOLEAN]
                    /\ configRows \in {<<MemoryConfig(e)>> : e \in BOOLEAN}
    /\ now = StartTime
    /\ history = <<>>
    /\ lastAlertTime = 0
    /\ snapshots = 0
    /\ deliveries = 0
    /\ pc = [p \in Procs |-> "idle"]
    /\ loc = [p \in Procs |-> NoLocals]
    /\ started = 0
    /\ audit = <<>>

\* ---- the handler over the Supabase store ----

\* GET (or POST without force, which calls GET): verifyCronSecret.
Request(p) ==
    /\ variant = "supabase"
    /\ FreeSlot(p)
    /\ Admitted
    /\ started' = started + 1
    /\ \E authorization \in {"Bearer secret", "absent"} :
          IF env.cronSecret /\ authorization # "Bearer secret"
          THEN Finish(p, "Unauthorized", loc[p])
          ELSE Goto(p, "config", loc[p])
    /\ UNCHANGED <<variant, env, configRows, now, history, lastAlertTime,
                   snapshots, deliveries, overlapping, audit>>
    /\ UNCHANGED <<aggVars, ruleVars, restVars>>

\* How getAlertConfig comes by its answer, given whether the select on the
\* config table answers: "default" (no client, or the select fails with an
\* error other than PGRST116), "created" (PGRST116: no row,
\* createDefaultConfig inserts one), "row" (the stored row).
ConfigAnswer(answers) ==
    IF ~env.supabase \/ ~answers THEN "default"
    ELSE IF configRows = <<>> THEN "created"
    ELSE "row"

\* What getAlertConfig returns (AlertConfig | null): on every path a config,
\* never null.  A row inserted by createDefaultConfig carries the column
\* defaults, taken to be the values of getDefaultConfig.
getAlertConfig(answers) ==
    IF ConfigAnswer(answers) = "row" THEN Some(configRows[1]) ELSE Some(getDefaultConfig)

\* The config table after getAlertConfig.
ConfigRowsAfterGet(answers) ==
    IF ConfigAnswer(answers) = "created" THEN <<getDefaultConfig>> ELSE configRows

\* await getAlertConfig('default'), then the checks up to the next await.
GetConfig(p) ==
    /\ pc[p] = "config"
    /\ \E answers \in BOOLEAN :
          /\ configRows' = ConfigRowsAfterGet(answers)
          /\ LET config == getAlertConfig(answers)
                 l == [loc[p] EXCEPT !.config = config,
                                     !.cfgRead = ConfigAnswer(answers)]
             IN IF config = <<>>
                THEN Finish(p, "Config not found", l)
                ELSE IF ~Val(config).telegram_enabled
                THEN Finish(p, "Telegram alerts disabled", l)
                ELSE IF ~(Val(config).telegram_chat_id \/ env.chatId)
                THEN Finish(p, "No chat ID configured", l)
                ELSE Goto(p, "cooldown", l)
    /\ UNCHANGED <<variant, env, now, history, lastAlertTime,
                   snapshots, deliveries, started, overlapping, audit>>
    /\ UNCHANGED <<aggVars, ruleVars, restVars>>

\* Mutant of CheckCooldown: the market snapshot is saved before the check.
CheckCooldown_snapshotFirst(p) ==
    /\ pc[p] = "cooldown"
    /\ snapshots' = snapshots + 1
    /\ LET l == [loc[p] EXCEPT !.seen = RowsEver]
       IN IF canSendAlert(getLastAlertTime, loc[p].config[1].min_minutes_between_alerts)
          THEN Goto(p, "fetch", l)
          ELSE Finish(p, "Rate limited - too soon since last alert", l)
    /\ UNCHANGED <<variant, env, configRows, now, history, lastAlertTime,
                   deliveries, started, overlapping, audit>>
    /\ UNCHANGED <<aggVars, ruleVars, restVars>>

\* await canSendAlert('default', config.min_minutes_between_alerts)
CheckCooldown(p) ==
    /\ pc[p] = "cooldown"
    /\ LET l == [loc[p] EXCEPT !.seen = RowsEver]
       IN IF canSendAlert(getLastAlertTime, loc[p].config[1].min_minutes_between_alerts)
          THEN Goto(p, "fetch", l)
          ELSE Finish(p, "Rate limited - too soon since last alert", l)
    /\ UNCHANGED <<variant, env, configRows, now, history, lastAlertTime,
                   snapshots, deliveries, started, overlapping, audit>>
    /\ UNCHANGED <<aggVars, ruleVars, restVars>>

\* await fetchMarketSentiment, await saveMarketSnapshot, checkAlertConditions.
FetchAndCheck(p) ==
    /\ variant = "supabase"
    /\ pc[p] = "fetch"
    /\ snapshots' = IF env.supabase THEN snapshots + 1 ELSE snapshots
    /\ \E sentiment \in Sentiments :
          LET alertCheck == checkAlertConditions(loc[p].config[1].rules, sentiment)
              l == [loc[p] EXCEPT !.sentiment = <<sentiment>>,
                                  !.alertCheck = <<alertCheck>>]
          IN IF ~alertCheck.shouldSend
             THEN Finish(p, "No alert conditions met", l)
             ELSE Goto(p, "send", l)
    /\ UNCHANGED <<variant, env, configRows, now, history, lastAlertTime,
                   deliveries, started, overlapping, audit>>
    /\ UNCHANGED <<aggVars, ruleVars, restVars>>

\* What sendTelegramMessage returns once Telegram has accepted (ok) or
\* refused the message: the id Telegram gave the message, or its error text.
TelegramResult(ok) ==
    IF ok THEN [success |-> TRUE, messageId |-> <<"message_id">>, error |-> <<>>]
    ELSE [success |-> FALSE, messageId |-> <<>>, error |-> <<"description">>]

\* await sendTelegramMessage (either handler).
SendTelegram(p) ==
    /\ pc[p] = "send"
    /\ \E ok \in BOOLEAN :
          /\ deliveries' = IF ok THEN deliveries + 1 ELSE deliveries
          /\ Goto(p, "record", [loc[p] EXCEPT !.result = <<TelegramResult(ok)>>])
    /\ UNCHANGED <<variant, env, configRows, now, history, lastAlertTime,
                   snapshots, started, overlapping, audit>>
    /\ UNCHANGED <<aggVars, ruleVars, restVars>>

\* The row addAlertToHistory inserts for a check; created_at is set by the
\* store at insertion.
HistoryRow(alertType, reason, sentiment, result) ==
    [alert_type |-> alertType,
     trigger_reason |-> reason,
     fear_greed_value |-> sentiment.fearGreed,
     funding_rate |-> sentiment.fundingRate,
     long_short_ratio |-> sentiment.longShortRatio,
     btc_change_24h |-> sentiment.priceChange24h,
     telegram_sent |-> result.success,
     telegram_message_id |-> result.messageId,
     telegram_error |-> result.error,
     created_at |-> now]

\* addAlertToHistory of supabase-alerts.ts: nothing is saved without a client.
HistoryAfterInsert(row) == IF env.supabase THEN Append(history, row) ELSE history
AuditAfterInsert(seen) ==
    IF env.supabase THEN Append(audit, [seq |-> RowsEver + 1, seen |-> seen]) ELSE audit

\* await addAlertToHistory({...}), then the response.
SaveToHistory(p) ==
    /\ variant = "supabase"
    /\ pc[p] = "record"
    /\ LET l == loc[p]
           row == HistoryRow(l.alertCheck[1].alertType, l.alertCheck[1].reason,
                             l.sentiment[1], l.result[1])
       IN /\ history' = HistoryAfterInsert(row)
          /\ audit' = AuditAfterInsert(l.seen)
          /\ Finish(p, IF l.result[1].success THEN "success: true" ELSE "success: false",
                    [l EXCEPT !.wrote = IF env.supabase THEN 1 ELSE 0])
    /\ UNCHANGED <<variant, env, configRows, now, lastAlertTime,
                   snapshots, deliveries, started, overlapping>>
    /\ UNCHANGED <<aggVars, ruleVars, restVars>>

\* The response has gone out: the slot is free again.
Respond(p) ==
    /\ pc[p] = "done"
    /\ pc' = [pc EXCEPT ![p] = "idle"]
    /\ loc' = [loc EXCEPT ![p] = NoLocals]
    /\ UNCHANGED <<variant, env, configRows, now, history, lastAlertTime,
                   snapshots, deliveries, started, overlapping, audit>>
    /\ UNCHANGED <<aggVars, ruleVars, restVars>>

\* POST with { force: true }: no cron secret, no cooldown, no history.
ForceAlert ==
    /\ variant = "supabase"
    /\ Admitted
    /\ started' = started + 1
    /\ \E ok \in BOOLEAN :
          deliveries' = IF env.chatId /\ ok THEN deliveries + 1 ELSE deliveries
    /\ UNCHANGED <<variant, env, configRows, now, history, lastAlertTime,
                   snapshots, pc, loc, overlapping, audit>>
    /\ UNCHANGED <<aggVars, ruleVars, restVars>>

\* POST /api/alerts/test: a test message, logged to the history when sent.
TestAlert ==
    /\ variant = "supabase"
    /\ Admitted
    /\ started' = started + 1
    /\ \E answers \in BOOLEAN, customChatId \in BOOLEAN, ok \in BOOLEAN,
          sentiment \in Sentiments :
          LET chatId == \/ customChatId
                        \/ getAlertConfig(answers) # <<>>
                           /\ Val(getAlertConfig(answers)).telegram_chat_id
                        \/ env.chatId
              result == TelegramResult(ok)
              row == HistoryRow("INFO", Reason("Test alert", None, ""), sentiment,
                                [result EXCEPT !.error = <<>>])
          IN /\ configRows' = ConfigRowsAfterGet(answers)
             /\ IF chatId /\ ok
                THEN /\ deliveries' = deliveries + 1
                     /\ history' = HistoryAfterInsert(row)
                     /\ audit' = AuditAfterInsert(-1)
                ELSE UNCHANGED <<deliveries, history, audit>>
    /\ UNCHANGED <<variant, env, now, lastAlertTime,
                   snapshots, pc, loc, overlapping>>
    /\ UNCHANGED <<aggVars, ruleVars, restVars>>

\* ---- the handler over the in-memory store ----

\* GET: everything up to the first await.
MemRequest(p) ==
    /\ variant = "memory"
    /\ FreeSlot(p)
    /\ Admitted
    /\ started' = started + 1
    /\ LET config == configRows[1]
           l == [loc[p] EXCEPT !.config = <<config>>, !.cfgRead = "row"]
       IN IF ~config.enabled
          THEN Finish(p, "Alerts disabled", l)
          ELSE IF ~env.chatId
          THEN Finish(p, "TELEGRAM_CHAT_ID not configured", l)
          ELSE IF ~memCanSendAlert(config.minTimeBetweenAlerts)
          THEN Finish(p, "Too soon since last alert", [l EXCEPT !.seen = RowsEver])
          ELSE Goto(p, "fetch", [l EXCEPT !.seen = RowsEver])
    /\ UNCHANGED <<variant, env, configRows, now, history, lastAlertTime,
                   snapshots, deliveries, overlapping, audit>>
    /\ UNCHANGED <<aggVars, ruleVars, restVars>>

\* await fetchMarketSentiment, shouldSendAlert.
MemFetchAndCheck(p) ==
    /\ variant = "memory"
    /\ pc[p] = "fetch"
    /\ \E sentiment \in Sentiments :
          LET alertCheck == shouldSendAlert(loc[p].config[1], sentiment)
              l == [loc[p] EXCEPT !.sentiment = <<sentiment>>,
                                  !.alertCheck = <<alertCheck>>]
          IN IF ~alertCheck.shouldSend
             THEN Finish(p, "No alert conditions met", l)
             ELSE Goto(p, "send", l)
    /\ UNCHANGED <<variant, env, configRows, now, history, lastAlertTime,
                   snapshots, deliveries, started, overlapping, audit>>
    /\ UNCHANGED <<aggVars, ruleVars, restVars>>

\* addAlertToHistory of alert-storage.ts: unshift, keep the last 100.
MemHistoryAfterAdd(alert) ==
    SubSeq(<<alert>> \o history, 1,
           IF Len(history) + 1 > HistoryCap THEN HistoryCap ELSE Len(history) + 1)

\* if (sent) { setLastAlertTime(Date.now()); addAlertToHistory({...}) }
MemRecord(p) ==
    /\ variant = "memory"
    /\ pc[p] = "record"
    /\ LET l == loc[p]
           sent == l.result[1].success
       IN /\ IF sent
             THEN /\ lastAlertTime' = now
                  /\ history' = MemHistoryAfterAdd(
                                   [timestamp |-> now,
                                    alertType |-> l.alertCheck[1].alertType,
                                    reason |-> l.alertCheck[1].reason,
                                    sent |-> TRUE])
                  /\ audit' = SubSeq(<<[seq |-> RowsEver + 1, seen |-> l.seen]>> \o audit,
                                     1, Len(history'))
             ELSE UNCHANGED <<lastAlertTime, history, audit>>
          /\ Finish(p, IF sent THEN "success: true" ELSE "success: false",
                    [l EXCEPT !.wrote = IF sent THEN 1 ELSE 0])
    /\ UNCHANGED <<variant, env, configRows, now,
                   snapshots, deliveries, started, overlapping>>
    /\ UNCHANGED <<aggVars, ruleVars, restVars>>

\* ---- the surroundings ----

\* A minute passes.
Tick ==
    /\ variant # "off"
    /\ now < MaxTime
    /\ now' = now + 1
    /\ UNCHANGED <<variant, env, configRows, history, lastAlertTime,
                   snapshots, deliveries, pc, loc, started, overlapping, audit>>
    /\ UNCHANGED <<aggVars, ruleVars, restVars>>

MaxAppends == 101

\* The alert a handler hands to addAlertToHistory of its store after a
\* delivered notification about SnapFear, the clock reading t.
AlertAt(t) ==
    LET alertCheck == checkAlertConditions(getDefaultConfig.rules, SnapFear)
    IN IF variant = "memory"
       THEN [timestamp |-> t, alertType |-> alertCheck.alertType,
             reason |-> alertCheck.reason, sent |-> TRUE]
       ELSE [HistoryRow(alertCheck.alertType, alertCheck.reason, SnapFear,
                        TelegramResult(TRUE)) EXCEPT !.created_at = t]

\* addAlertToHistory(alert) of either store, called on its own, the clock
\* moving on by one between two calls.  getAlertHistory hands out a copy and
\* leaves the store as it is.
addAlertToHistory ==
    /\ variant # "off"
    /\ now < StartTime + MaxAppends
    /\ now' = now + 1
    /\ IF variant = "memory"
       THEN /\ history' = MemHistoryAfterAdd(AlertAt(now))
            /\ audit' = SubSeq(<<[seq |-> RowsEver + 1, seen |-> RowsEver]>> \o audit,
                               1, Len(history'))
       ELSE /\ history' = HistoryAfterInsert(AlertAt(now))
            /\ audit' = AuditAfterInsert(RowsEver)
    /\ UNCHANGED <<variant, env, configRows, lastAlertTime, snapshots, deliveries,
                   pc, loc, started, overlapping>>
    /\ UNCHANGED <<aggVars, ruleVars, restVars>>

NextCycle ==
    \/ \E p \in Procs : Request(p)
    \/ \E p \in Procs : GetConfig(p)
    \/ \E p \in Procs : CheckCooldown(p)
    \/ \E p \in Procs : FetchAndCheck(p)
    \/ \E p \in Procs : SendTelegram(p)
    \/ \E p \in Procs : SaveToHistory(p)
    \/ \E p \in Procs : Respond(p)
    \/ ForceAlert
    \/ TestAlert
    \/ \E p \in Procs : MemRequest(p)
    \/ \E p \in Procs : MemFetchAndCheck(p)
    \/ \E p \in Procs : MemRecord(p)
    \/ Tick

(***************************************************************************)
(* useIndicators: the enabled-indicator preference and calculateSignal     *)
(***************************************************************************)

\* Number of entries of ALL_INDICATORS the model carries.
NumIndicators == 4

\* ALL_INDICATORS: the leading entries are enabled by default, the others
\* are not.
DefaultEnabledIds == {1, 2}
ALL_INDICATORS ==
    [i \in 1..NumIndicators |-> [id |-> i, enabled |-> i \in DefaultEnabledIds]]

\* indicators.filter(i => i.enabled)
FilterEnabled(list) == SelectSeq(list, LAMBDA i : i.enabled)

\* list.map(i => i.id)
MapIds(list) == [k \in 1..Len(list) |-> list[k].id]

\* savedIds.includes(id)
Includes(ids, id) == \E k \in 1..Len(ids) : ids[k] = id

\* getFromStorage<string[]>(STORAGE_KEY, []): the parsed item, or the
\* default when localStorage holds no item under the key.
getFromStorage(defaultValue) ==
    IF storage = Undefined THEN defaultValue ELSE Val(storage)

\* The body of the load effect: the list setIndicators is given.
LoadedIndicators ==
    LET savedIds == getFromStorage(<<>>)
    IN IF Len(savedIds) > 0
       THEN [k \in 1..Len(ALL_INDICATORS) |->
                [ALL_INDICATORS[k] EXCEPT !.enabled = Includes(savedIds, ALL_INDICATORS[k].id)]]
       ELSE ALL_INDICATORS

\* The save effect: setToStorage(STORAGE_KEY, enabledIds) once isLoaded.
StorageAfterSave(loaded, list) ==
    IF loaded THEN Some(MapIds(FilterEnabled(list))) ELSE storage

\* results.forEach over the results from position k on, from the running
\* totals acc.
RECURSIVE ForEachFrom(_, _, _)
ForEachFrom(res, k, acc) ==
    IF k > Len(res) THEN acc
    ELSE ForEachFrom(res, k + 1,
             [totalScore   |-> acc.totalScore + signalWeights(res[k].signal),
              bullishCount |-> acc.bullishCount + BullishInc(res[k].signal),
              bearishCount |-> acc.bearishCount + BearishInc(res[k].signal),
              neutralCount |-> acc.neutralCount + NeutralInc(res[k].signal)])

\* Mutant of IndicatorsArgument: an empty list counts as no list given.
IndicatorsArgument_emptyIsAbsent(enabledIndicators) ==
    IF enabledIndicators = Undefined \/ Val(enabledIndicators) = <<>>
    THEN FilterEnabled(ALL_INDICATORS)
    ELSE Val(enabledIndicators)

\* const indicators = enabledIndicators || ALL_INDICATORS.filter(i => i.enabled):
\* an array, empty or not, is truthy; only an absent argument falls back.
IndicatorsArgument(enabledIndicators) ==
    IF enabledIndicators = Undefined
    THEN FilterEnabled(ALL_INDICATORS)
    ELSE Val(enabledIndicators)

\* calculateCombinedSignal(prices, volumes, enabledIndicators), signalOf[id]
\* being the signal indicator.calculate(prices, volumes) returns.
calculateCombinedSignal(enabledIndicators, signalOf) ==
    LET inds == IndicatorsArgument(enabledIndicators)
        res == [k \in 1..Len(inds) |-> [id |-> inds[k].id, signal |-> signalOf[inds[k].id]]]
        sums == ForEachFrom(res, 1, [totalScore |-> 0, bullishCount |-> 0,
                                     bearishCount |-> 0, neutralCount |-> 0])
        maxScore == MaxScoreOf(Len(inds))
    IN [overall |-> OverallOf(sums.totalScore, maxScore),
        score |-> MathRound(sums.totalScore, maxScore),
        bullishCount |-> sums.bullishCount,
        bearishCount |-> sums.bearishCount,
        neutralCount |-> sums.neutralCount,
        indicators |-> res]

HookIdle ==
    /\ hookPc = "off"
    /\ indicators = <<>>
    /\ isLoaded = FALSE
    /\ storage = Undefined
    /\ signal = <<>>

\* The page has not been opened yet; localStorage holds no preference.
HookInit ==
    /\ hookPc = "unmounted"
    /\ indicators = <<>>
    /\ isLoaded = FALSE
    /\ storage = Undefined
    /\ signal = <<>>

\* First render of a component using the hook: useState([]), useState(false).
Render ==
    /\ hookPc = "unmounted"
    /\ hookPc' = "rendered"
    /\ indicators' = <<>>
    /\ isLoaded' = FALSE
    /\ signal' = <<>>
    /\ UNCHANGED storage
    /\ UNCHANGED <<aggVars, ruleVars, cycleVars, indVars, sentVars, cfgVars, wlVars>>

\* The effects after the first render: the load effect, then (isLoaded now
\* true) the save effect.
LoadEffect ==
    /\ hookPc = "rendered"
    /\ hookPc' = "loaded"
    /\ indicators' = LoadedIndicators
    /\ isLoaded' = TRUE
    /\ storage' = StorageAfterSave(TRUE, LoadedIndicators)
    /\ UNCHANGED signal
    /\ UNCHANGED <<aggVars, ruleVars, cycleVars, indVars, sentVars, cfgVars, wlVars>>

\* setIndicators(next), followed by the save effect; the re-render leaves
\* the caller without the result computed from the previous list.
SetIndicators(next) ==
    /\ hookPc \in {"rendered", "loaded"}
    /\ indicators' = next
    /\ storage' = StorageAfterSave(isLoaded, next)
    /\ signal' = <<>>
    /\ UNCHANGED <<hookPc, isLoaded>>
    /\ UNCHANGED <<aggVars, ruleVars, cycleVars, indVars, sentVars, cfgVars, wlVars>>

toggleIndicator(id) ==
    SetIndicators([k \in 1..Len(indicators) |->
                      IF indicators[k].id = id
                      THEN [indicators[k] EXCEPT !.enabled = ~indicators[k].enabled]
                      ELSE indicators[k]])

enableAll ==
    SetIndicators([k \in 1..Len(indicators) |-> [indicators[k] EXCEPT !.enabled = TRUE]])

disableAll ==
    SetIndicators([k \in 1..Len(indicators) |-> [indicators[k] EXCEPT !.enabled = FALSE]])

\* calculateSignal(prices, volumes): the enabled indicators are handed to
\* calculateCombinedSignal.  The caller holds one result at a time.
calculateSignal ==
    /\ hookPc \in {"rendered", "loaded"}
    /\ signal = <<>>
    /\ \E signalOf \in [1..NumIndicators -> Signals] :
          signal' = Some(calculateCombinedSignal(Some(FilterEnabled(indicators)), signalOf))
    /\ UNCHANGED <<hookPc, indicators, isLoaded, storage>>
    /\ UNCHANGED <<aggVars, ruleVars, cycleVars, indVars, sentVars, cfgVars, wlVars>>

\* The caller lets go of the result (new prices: the next render computes a
\* new one).
DropSignal ==
    /\ hookPc \in {"rendered", "loaded"}
    /\ signal # <<>>
    /\ signal' = <<>>
    /\ UNCHANGED <<hookPc, indicators, isLoaded, storage>>
    /\ UNCHANGED <<aggVars, ruleVars, cycleVars, indVars, sentVars, cfgVars, wlVars>>

\* The page is closed or reloaded: the component state is gone, localStorage
\* stays.
Unmount ==
    /\ hookPc \in {"rendered", "loaded"}
    /\ hookPc' = "unmounted"
    /\ indicators' = <<>>
    /\ isLoaded' = FALSE
    /\ signal' = <<>>
    /\ UNCHANGED storage
    /\ UNCHANGED <<aggVars, ruleVars, cycleVars, indVars, sentVars, cfgVars, wlVars>>

NextHook ==
    \/ Render
    \/ LoadEffect
    \/ \E id \in 1..NumIndicators : toggleIndicator(id)
    \/ enableAll
    \/ disableAll
    \/ calculateSignal
    \/ DropSignal
    \/ Unmount

(***************************************************************************)
(* Technical indicators: Indicator.calculate(prices, volumes)              *)
(*                                                                         *)
(* A number computed from prices is kept as an exact fraction <<num, den>> *)
(* with den > 0; <<>> is NaN, the result of arithmetic on an element read  *)
(* outside the series (undefined).  RSI, Momentum and ROC are followed to  *)
(* their result.  Of the other indicators the length guard, the windows    *)
(* they slice and the elements they index are followed; the signal their   *)
(* value computation arrives at is left open among the signals the code    *)
(* can assign.                                                             *)
(***************************************************************************)

\* Longest price series the model hands to an indicator.
MaxPrices == 80

NaN == <<>>

\* How the number v stands to the number t: "<", "=", ">", or "nan" (every
\* comparison with NaN is false).
Compare(v, t) ==
    IF v = NaN THEN "nan"
    ELSE IF v[1] < t * v[2] THEN "<" ELSE IF v[1] = t * v[2] THEN "=" ELSE ">"

\* getSignal(value, strongBuy, buy, sell, strongSell, inverted)
getSignal(value, strongBuy, buy, sell, strongSell, inverted) ==
    IF inverted
    THEN IF (Compare(value, strongBuy) \in {"<", "="}) THEN "strong_buy"
         ELSE IF (Compare(value, buy) \in {"<", "="}) THEN "buy"
         ELSE IF (Compare(value, strongSell) \in {">", "="}) THEN "strong_sell"
         ELSE IF (Compare(value, sell) \in {">", "="}) THEN "sell"
         ELSE "neutral"
    ELSE IF (Compare(value, strongBuy) \in {">", "="}) THEN "strong_buy"
         ELSE IF (Compare(value, buy) \in {">", "="}) THEN "buy"
         ELSE IF (Compare(value, strongSell) \in {"<", "="}) THEN "strong_sell"
         ELSE IF (Compare(value, sell) \in {"<", "="}) THEN "sell"
         ELSE "neutral"

\* Math.round(value * 100), the value in hundredths (NaN stays NaN).
RoundHundredths(v) ==
    IF v = NaN THEN NaN ELSE <<(200 * v[1] + v[2]) \div (2 * v[2])>>

\* prices[i] with the index JavaScript uses (0-based): undefined outside.
PriceAt(i) == IF i >= 0 /\ i < Len(prices) THEN Some(prices[i + 1]) ELSE Undefined

\* arr.reduce((a, b) => a + b, 0)
RECURSIVE SumSeq(_)
SumSeq(arr) == IF arr = <<>> THEN 0 ELSE Head(arr) + SumSeq(Tail(arr))

IndicatorIds ==
    {"rsi", "macd", "bollinger", "sma_cross", "volume", "momentum", "stochastic",
     "atr", "dmi", "stc", "aroon", "supertrend", "ema_cross", "williams_r", "cci",
     "roc", "vwap"}

\* SMACrossover below 200 prices: shortPeriod = Math.min(10,
\* Math.floor(len / 3)) and longPeriod = Math.min(30, Math.floor(len * 0.8)).
SmaPeriods(len) ==
    [short |-> IF len \div 3 < 10 THEN len \div 3 ELSE 10,
     long  |-> IF (len * 8) \div 10 < 30 THEN (len * 8) \div 10 ELSE 30]

\* The guard at the head of calculate: TRUE when the indicator returns its
\* "not enough data" result at once.
InsufficientGuard(id, len) ==
    CASE id = "rsi"        -> len < 15
      [] id = "macd"       -> len < 26
      [] id = "bollinger"  -> len < 20
      [] id = "sma_cross"  -> len < 200 /\ len < SmaPeriods(len).long + 5
      [] id = "volume"     -> volumes = Undefined \/ Len(Val(volumes)) < 20
      [] id = "momentum"   -> len < 10
      [] id = "stochastic" -> len < 14
      [] id = "atr"        -> len < 15
      [] id = "dmi"        -> len < 34 + 5
      [] id = "stc"        -> len < 60 + 14
      [] id = "aroon"      -> len < 25 + 1
      [] id = "supertrend" -> len < 10 + 5
      [] id = "ema_cross"  -> len < 25
      [] id = "williams_r" -> len < 14
      [] id = "cci"        -> len < 20
      [] id = "roc"        -> len < 12 + 1
      [] id = "vwap"       -> len < 20

\* The numbers of trailing (or leading) prices the computation takes as one
\* window: slices it averages or scans, smoothing periods, the changes RSI
\* and ATR take (14 changes are 15 prices).
WindowsOf(id, len) ==
    CASE id = "rsi"        -> {15}
      [] id = "macd"       -> {12, 26}
      [] id = "bollinger"  -> {20}
      [] id = "sma_cross"  -> IF len < 200 THEN {SmaPeriods(len).short, SmaPeriods(len).long}
                              ELSE {50, 200}
      [] id = "volume"     -> {20}
      [] id = "momentum"   -> {}
      [] id = "stochastic" -> {14}
      [] id = "atr"        -> {15}
      [] id = "dmi"        -> {16, 35}
      [] id = "stc"        -> {14, 25, 60}
      [] id = "aroon"      -> {26}
      [] id = "supertrend" -> {11}
      [] id = "ema_cross"  -> {9, 21}
      [] id = "williams_r" -> {14}
      [] id = "cci"        -> {20}
      [] id = "roc"        -> {}
      [] id = "vwap"       -> {}

\* The elements of prices the computation reads by index, besides the loops
\* that run over the series itself.
DirectReads(id, len) ==
    CASE id = "rsi"        -> {}
      [] id = "macd"       -> {len - 1}
      [] id = "bollinger"  -> {len - 1}
      [] id = "sma_cross"  -> {}
      [] id = "volume"     -> {len - 1, len - 2}
      [] id = "momentum"   -> {len - 1, len - 10 - 1}
      [] id = "stochastic" -> {}
      [] id = "atr"        -> {len - 1}
      [] id = "dmi"        -> {len - 2, len - 3}
      [] id = "stc"        -> {0, len - 1, len - 2, len - 3}
      [] id = "aroon"      -> {}
      [] id = "supertrend" -> {10, len - 1}
      [] id = "ema_cross"  -> {0, len - 1, len - 2}
      [] id = "williams_r" -> {len - 1}
      [] id = "cci"        -> {}
      [] id = "roc"        -> {len - 1, len - 1 - 12}
      [] id = "vwap"       -> {len - 1}

\* The signals the computation of an indicator can assign.
AssignableSignals(id) ==
    CASE id = "atr"        -> {"neutral"}
      [] id = "supertrend" -> Signals \ {"neutral"}
      [] id = "williams_r" -> {"sell", "buy", "neutral"}
      [] OTHER             -> Signals

\* rs = avgLoss === 0 ? 100 : avgGain / avgLoss; rsi = 100 - 100 / (1 + rs),
\* with avgGain = sum(gains) / 14 and avgLoss = sum(losses) / 14: without
\* losses 100 - 100 / 101, otherwise 100 * sum(gains) / (sum(gains) + sum(losses)).
RsiOf(gains, losses) ==
    IF SumSeq(losses) = 0 THEN <<100 * 100, 101>>
    ELSE <<100 * SumSeq(gains), SumSeq(gains) + SumSeq(losses)>>

\* RSI.calculate beyond its guard (at least 15 prices): changes =
\* prices.slice(1).map((price, i) => price - prices[i]), recentChanges =
\* changes.slice(-14).
RsiResult ==
    LET changes == [i \in 1..(Len(prices) - 1) |-> prices[i + 1] - prices[i]]
        recentChanges == SubSeq(changes, Len(changes) - 14 + 1, Len(changes))
        gains == SelectSeq(recentChanges, LAMBDA c : c > 0)
        losses == [k \in 1..Len(SelectSeq(recentChanges, LAMBDA c : c < 0)) |->
                      Abs(SelectSeq(recentChanges, LAMBDA c : c < 0)[k])]
        rsi == RsiOf(gains, losses)
    IN [name |-> "RSI",
        value |-> RoundHundredths(rsi),
        signal |-> getSignal(rsi, 0, 30, 70, 80, TRUE),
        description |-> IF (Compare(rsi, 30) = "<") THEN "Oversold - potential buying opportunity"
                        ELSE IF (Compare(rsi, 70) = ">") THEN "Overbought - potential selling opportunity"
                        ELSE "Neutral momentum"]

\* ((current - previous) / previous) * 100 over elements that may be
\* undefined; prices are positive.
PercentChange(current, previous) ==
    IF current = Undefined \/ previous = Undefined THEN NaN
    ELSE <<100 * (Val(current) - Val(previous)), Val(previous)>>

\* Momentum.calculate beyond its guard.
MomentumResult ==
    LET period == 10
        momentum == PercentChange(PriceAt(Len(prices) - 1), PriceAt(Len(prices) - period - 1))
    IN [name |-> "MOM",
        value |-> RoundHundredths(momentum),
        signal |-> getSignal(momentum, 10, 3, -3, -10, FALSE),
        description |-> IF (Compare(momentum, 3) = ">") THEN "Strong upward momentum"
                        ELSE IF (Compare(momentum, -3) = "<") THEN "Strong downward momentum"
                        ELSE "Momentum neutral"]

\* ROC.calculate beyond its guard (the description of a plain result is the
\* formatted rate).
RocResult ==
    LET period == 12
        roc == PercentChange(PriceAt(Len(prices) - 1), PriceAt(Len(prices) - 1 - period))
    IN [name |-> "ROC",
        signal |-> IF (Compare(roc, 10) = ">") THEN "strong_buy"
                   ELSE IF (Compare(roc, 3) = ">") THEN "buy"
                   ELSE IF (Compare(roc, -10) = "<") THEN "strong_sell"
                   ELSE IF (Compare(roc, -3) = "<") THEN "sell"
                   ELSE "neutral",
        description |-> IF (Compare(roc, 10) = ">") THEN "Strong momentum up"
                        ELSE IF (Compare(roc, 3) = ">") THEN "Positive momentum"
                        ELSE IF (Compare(roc, -10) = "<") THEN "Strong momentum down"
                        ELSE IF (Compare(roc, -3) = "<") THEN "Negative momentum"
                        ELSE "rate over 12 periods"]

\* indicator.calculate(prices, volumes) of the indicator `id`; `open` is the
\* signal the value computation of an indicator that is not followed to its
\* result arrives at, when every element it reads exists (arithmetic on an
\* undefined element gives NaN, whose comparisons all fail).
calculate(id, open) ==
    IF InsufficientGuard(id, Len(prices))
    THEN [name |-> id, signal |-> "neutral",
          description |-> IF id = "volume" THEN "Volume data unavailable"
                          ELSE "Insufficient data"]
    ELSE CASE id = "rsi"      -> RsiResult
           [] id = "momentum" -> MomentumResult
           [] id = "roc"      -> RocResult
           [] OTHER -> [name |-> id,
                        signal |-> IF DirectReads(id, Len(prices)) \subseteq 0..(Len(prices) - 1)
                                   THEN open ELSE "neutral",
                        description |-> "computed"]

\* The price series the model draws: `len` prices that rise, fall, stay or
\* alternate by `step` per bar.
PriceSeries(shape, step, len) ==
    [i \in 1..len |->
        CASE shape = "rising"  -> 100 + step * i
          [] shape = "falling" -> 1000 - step * i
          [] shape = "flat"    -> 100
          [] shape = "zigzag"  -> 100 + step * (i % 2)]

IndIdle ==
    /\ indPc = "off"
    /\ prices = <<>>
    /\ volumes = Undefined
    /\ indOut = <<>>

\* A caller holds a price series and, when it has them, the volumes of the
\* same bars.
IndInit ==
    /\ indPc = "ready"
    /\ \E shape \in {"rising", "falling", "flat", "zigzag"}, step \in {1, 5},
          len \in 0..MaxPrices :
          /\ prices = PriceSeries(shape, step, len)
          /\ volumes \in {Undefined, Some([i \in 1..len |-> 1])}
    /\ indOut = <<>>

\* indicator.calculate(prices, volumes) is called; `outside` notes whether
\* the call read an element outside the series.
Calculate(id) ==
    /\ indPc = "ready"
    /\ indPc' = "done"
    /\ \E open \in AssignableSignals(id) :
          indOut' = Some([id |-> id,
                          outside |-> /\ ~InsufficientGuard(id, Len(prices))
                                      /\ ~(DirectReads(id, Len(prices))
                                             \subseteq 0..(Len(prices) - 1)),
                          result |-> calculate(id, open)])
    /\ UNCHANGED <<prices, volumes>>
    /\ UNCHANGED <<aggVars, ruleVars, cycleVars, hookVars, sentVars, cfgVars, wlVars>>

NextInd == \E id \in IndicatorIds : Calculate(id)

(***************************************************************************)
(* Market sentiment: fetchMarketSentiment and calculateOverallSignal       *)
(***************************************************************************)

\* The signal fetchFearGreedIndex gives the index value.
FearGreedSignal(value) ==
    IF value <= 20 THEN "strong_buy"
    ELSE IF value <= 40 THEN "buy"
    ELSE IF value >= 80 THEN "strong_sell"
    ELSE IF value >= 60 THEN "sell"
    ELSE "neutral"

\* The signal fetchFundingRate gives ratePercent (in hundredths of a percent).
FundingRateSignal(ratePercent) ==
    IF ratePercent >= 10 THEN "sell"
    ELSE IF ratePercent >= 5 THEN "caution"
    ELSE IF ratePercent <= -5 THEN "buy"
    ELSE IF ratePercent <= -3 THEN "strong_buy"
    ELSE "neutral"

\* The signal fetchLongShortRatio gives the ratio (in tenths).
LongShortSignal(ratio) ==
    IF ratio >= 30 THEN "strong_sell"
    ELSE IF ratio >= 25 THEN "sell"
    ELSE IF ratio >= 20 THEN "caution"
    ELSE IF ratio <= 5 THEN "strong_buy"
    ELSE IF ratio <= 7 THEN "buy"
    ELSE "neutral"

\* What calculateOverallSignal adds to score for a fear/greed value.
FearGreedPoints(value) ==
    IF value <= 20 THEN 40 ELSE IF value <= 35 THEN 20
    ELSE IF value >= 80 THEN -40 ELSE IF value >= 65 THEN -20 ELSE 0

\* calculateOverallSignal(fearGreed, fundingRate, longShortRatio), each
\* argument the metric's value or null.  Math.round(score / factors * factors)
\* is score itself for every score and factor count that can arise.
calculateOverallSignal(fearGreed, fundingRate, longShortRatio) ==
    LET FundingRatePoints(ratePercent) ==
            IF ratePercent <= -5 THEN 30 ELSE IF ratePercent <= -2 THEN 15
            ELSE IF ratePercent >= 10 THEN -30 ELSE IF ratePercent >= 5 THEN -15 ELSE 0
        LongShortPoints(ratio) ==
            IF ratio <= 5 THEN 30 ELSE IF ratio <= 8 THEN 15
            ELSE IF ratio >= 30 THEN -30 ELSE IF ratio >= 25 THEN -15 ELSE 0
        score == (IF fearGreed = Undefined THEN 0 ELSE FearGreedPoints(Val(fearGreed)))
               + (IF fundingRate = Undefined THEN 0 ELSE FundingRatePoints(Val(fundingRate)))
               + (IF longShortRatio = Undefined THEN 0 ELSE LongShortPoints(Val(longShortRatio)))
        factors == (IF fearGreed = Undefined THEN 0 ELSE 1)
                 + (IF fundingRate = Undefined THEN 0 ELSE 1)
                 + (IF longShortRatio = Undefined THEN 0 ELSE 1)
        normalizedScore == IF factors > 0 THEN score ELSE 0
    IN [signal |-> IF normalizedScore >= 50 THEN "strong_buy"
                   ELSE IF normalizedScore >= 25 THEN "buy"
                   ELSE IF normalizedScore <= -50 THEN "strong_sell"
                   ELSE IF normalizedScore <= -25 THEN "sell"
                   ELSE "neutral",
        score |-> normalizedScore]

SentIdle == upstream = <<>> /\ marketSentiment = <<>>

\* What the three upstream services answer: a value, or nothing (the
\* fetch fails and returns null).
SentInit ==
    /\ upstream \in {<<u>> : u \in
          [fearGreed : OptionalOf(0..100),
           fundingRate : OptionalOf({-6, -5, -4, -3, -2, -1, 0, 4, 5, 9, 10, 11}),
           longShortRatio : OptionalOf({4, 5, 6, 7, 8, 9, 19, 20, 24, 25, 29, 30, 31})]}
    /\ marketSentiment = <<>>

\* fetchMarketSentiment(symbol): the per-metric results and the overall
\* signal and score.
fetchMarketSentiment ==
    /\ upstream # <<>>
    /\ marketSentiment = <<>>
    /\ LET u == Val(upstream)
           overall == calculateOverallSignal(u.fearGreed, u.fundingRate, u.longShortRatio)
       IN marketSentiment' = Some(
             [fearGreed |-> IF u.fearGreed = Undefined THEN Undefined
                            ELSE Some([value |-> Val(u.fearGreed),
                                       signal |-> FearGreedSignal(Val(u.fearGreed))]),
              fundingRate |-> IF u.fundingRate = Undefined THEN Undefined
                              ELSE Some([ratePercent |-> Val(u.fundingRate),
                                         signal |-> FundingRateSignal(Val(u.fundingRate))]),
              longShortRatio |-> IF u.longShortRatio = Undefined THEN Undefined
                                 ELSE Some([ratio |-> Val(u.longShortRatio),
                                            signal |-> LongShortSignal(Val(u.longShortRatio))]),
              overallSignal |-> overall.signal,
              overallScore |-> overall.score])
    /\ UNCHANGED upstream
    /\ UNCHANGED <<aggVars, ruleVars, cycleVars, hookVars, indVars, cfgVars, wlVars>>

(***************************************************************************)
(* The alert-config endpoint: GET, POST and PUT of /api/alerts/config      *)
(***************************************************************************)

\* The fields of an AlertConfig the endpoint validates or masks, with the
\* values getDefaultConfig gives them (ratios in tenths).  The other
\* fields are copied like these and take part in no test.
DefaultRow ==
    [telegram_enabled |-> FALSE, telegram_chat_id |-> Undefined,
     fear_greed_buy_threshold |-> 15, fear_greed_sell_threshold |-> 85,
     long_short_high_threshold |-> 35, long_short_low_threshold |-> 5,
     min_minutes_between_alerts |-> 60]

\* const defaultConfig of PUT: every field of it that the row keeps, each
\* one present; telegram_chat_id is not among them.
defaultConfig ==
    [f \in DOMAIN DefaultRow |->
        IF f = "telegram_chat_id" THEN Undefined ELSE Some(DefaultRow[f])]

MaxFields == 2
MaxMinutes == 6

\* The bodies request.json() gives POST: each field absent or a value, at
\* most MaxFields fields present.
UpdateBodies ==
    {u \in [telegram_enabled : OptionalOf({TRUE}),
            telegram_chat_id : OptionalOf({"123456"}),
            fear_greed_buy_threshold : OptionalOf({-1, 100}),
            fear_greed_sell_threshold : OptionalOf({101}),
            long_short_high_threshold : OptionalOf({-10}),
            long_short_low_threshold : OptionalOf({0}),
            min_minutes_between_alerts : OptionalOf(4..MaxMinutes)] :
       Cardinality({f \in DOMAIN u : u[f] # Undefined}) <= MaxFields}

ValidationError_noMinimum(updates) ==
    IF /\ updates.fear_greed_buy_threshold # Undefined
       /\ \/ Val(updates.fear_greed_buy_threshold) < 0
          \/ Val(updates.fear_greed_buy_threshold) > 100
    THEN Some("Fear & Greed buy threshold must be 0-100")
    ELSE IF /\ updates.fear_greed_sell_threshold # Undefined
            /\ \/ Val(updates.fear_greed_sell_threshold) < 0
               \/ Val(updates.fear_greed_sell_threshold) > 100
    THEN Some("Fear & Greed sell threshold must be 0-100")
    ELSE Undefined

\* The error of POST's "Validate thresholds" tests, if one of them fails.
ValidationError(updates) ==
    IF /\ updates.fear_greed_buy_threshold # Undefined
       /\ \/ Val(updates.fear_greed_buy_threshold) < 0
          \/ Val(updates.fear_greed_buy_threshold) > 100
    THEN Some("Fear & Greed buy threshold must be 0-100")
    ELSE IF /\ updates.fear_greed_sell_threshold # Undefined
            /\ \/ Val(updates.fear_greed_sell_threshold) < 0
               \/ Val(updates.fear_greed_sell_threshold) > 100
    THEN Some("Fear & Greed sell threshold must be 0-100")
    ELSE IF /\ updates.min_minutes_between_alerts # Undefined
            /\ Val(updates.min_minutes_between_alerts) < 5
    THEN Some("Minimum time between alerts must be at least 5 minutes")
    ELSE Undefined

\* { ...config, telegram_chat_id: config.telegram_chat_id ?
\*   '***configured***' : null }
Masked(config) ==
    [config EXCEPT !.telegram_chat_id =
        IF config.telegram_chat_id # Undefined THEN Some("***configured***")
        ELSE Undefined]

\* updateAlertConfig('default', updates) where the update succeeds: the row
\* it stores and returns, the fields present in updates replaced.
updateAlertConfig(row, updates) ==
    [f \in DOMAIN row |->
        IF updates[f] = Undefined THEN row[f]
        ELSE IF f = "telegram_chat_id" THEN updates[f] ELSE Val(updates[f])]

CfgIdle == cfgEnv = <<>> /\ cfgRow = <<>> /\ cfgResponse = <<>>

\* The environment settings, and the row of user 'default' where the table
\* has one.
CfgInit ==
    /\ cfgEnv \in {<<e>> : e \in [supabase : BOOLEAN, botToken : BOOLEAN]}
    /\ cfgRow \in IF Val(cfgEnv).supabase THEN {Undefined, Some(DefaultRow)}
                  ELSE {Undefined}
    /\ cfgResponse = <<>>

\* GET: getAlertConfig('default'), masked.  The config is the row, the row
\* createDefaultConfig inserts when there is none, or getDefaultConfig.
GET ==
    /\ cfgEnv # <<>>
    /\ \E config \in {DefaultRow} \cup {Val(r) : r \in {cfgRow} \ {Undefined}},
          created \in BOOLEAN :
          /\ created => (Val(cfgEnv).supabase /\ cfgRow = Undefined /\ config = DefaultRow)
          /\ cfgRow' = IF created THEN Some(DefaultRow) ELSE cfgRow
          /\ cfgResponse' = Some([status |-> 200, error |-> Undefined,
                                  config |-> Some(Masked(config))])
    /\ UNCHANGED cfgEnv
    /\ UNCHANGED <<aggVars, ruleVars, cycleVars, hookVars, indVars, sentVars, wlVars>>

\* POST with the given body, if request.json() can read one: validate,
\* verify the Telegram settings, update, answer.  The update returns
\* nothing where Supabase is not configured, where the table has no row of
\* the user, or where it ends in an error.
POST(body) ==
    /\ cfgEnv # <<>>
    /\ \E valid \in BOOLEAN, updated \in BOOLEAN :
          LET updates == Val(body)
              verify == updates.telegram_enabled = Some(TRUE)
                        /\ updates.telegram_chat_id # Undefined
              reply(status, error) ==
                  /\ cfgResponse' = Some([status |-> status, error |-> Some(error),
                                          config |-> Undefined])
                  /\ UNCHANGED cfgRow
          IN IF body = Undefined
             THEN reply(500, "Failed to update config")
             ELSE IF ValidationError(updates) # Undefined
             THEN reply(400, Val(ValidationError(updates)))
             ELSE IF verify /\ ~Val(cfgEnv).botToken
             THEN reply(500, "TELEGRAM_BOT_TOKEN not configured on server")
             ELSE IF verify /\ ~valid
             THEN reply(400, "Telegram verification failed")
             ELSE IF ~(Val(cfgEnv).supabase /\ cfgRow # Undefined /\ updated)
             THEN reply(500, "Failed to update config")
             ELSE /\ cfgRow' = Some(updateAlertConfig(Val(cfgRow), updates))
                  /\ cfgResponse' = Some([status |-> 200, error |-> Undefined,
                                          config |-> Some(Masked(Val(cfgRow')))])
    /\ UNCHANGED cfgEnv
    /\ UNCHANGED <<aggVars, ruleVars, cycleVars, hookVars, indVars, sentVars, wlVars>>

\* PUT: updateAlertConfig('default', defaultConfig); the answer carries what
\* it returned.
PUT ==
    /\ cfgEnv # <<>>
    /\ \E updated \in BOOLEAN :
          IF Val(cfgEnv).supabase /\ cfgRow # Undefined /\ updated
          THEN /\ cfgRow' = Some(updateAlertConfig(Val(cfgRow), defaultConfig))
               /\ cfgResponse' = Some([status |-> 200, error |-> Undefined,
                                       config |-> cfgRow'])
          ELSE /\ cfgResponse' = Some([status |-> 200, error |-> Undefined,
                                       config |-> Undefined])
               /\ UNCHANGED cfgRow
    /\ UNCHANGED cfgEnv
    /\ UNCHANGED <<aggVars, ruleVars, cycleVars, hookVars, indVars, sentVars, wlVars>>

NextConfig ==
    \/ GET
    \/ \E body \in OptionalOf(UpdateBodies) : POST(body)
    \/ PUT

(***************************************************************************)
(* useWatchlist                                                            *)
(*                                                                         *)
(* The watchlist is a list of entries {id, type, addedAt}.  localStorage   *)
(* holds the JSON text of the list: an array of objects, written here as   *)
(* a sequence of <<id, type, addedAt>> triples.                            *)
(***************************************************************************)

\* The largest number of entries one page history appends.
MaxAdds == 3

AssetIds == {"btc", "aapl"}

\* type AssetType = 'crypto' | 'stock'
AssetTypes == {"crypto", "stock"}

\* The assets the page offers: only id and type of an Asset are read.
Assets == [id : AssetIds, type : AssetTypes]

\* JSON.stringify(watchlist)
stringify(list) == [k \in 1..Len(list) |-> <<list[k].id, list[k].type, list[k].addedAt>>]

\* JSON.parse(item)
parse(item) == [k \in 1..Len(item) |->
                   [id |-> item[k][1], type |-> item[k][2], addedAt |-> item[k][3]]]

\* getFromStorage<WatchlistEntry[]>(STORAGE_KEY, []): the parsed item, or
\* the default when localStorage holds no item under the key.
getSavedWatchlist(defaultValue) ==
    IF wlStorage = Undefined THEN defaultValue ELSE parse(Val(wlStorage))

\* The save effect: setToStorage(STORAGE_KEY, watchlist) once isLoaded.
WatchlistAfterSave(loaded, list) ==
    IF loaded THEN Some(stringify(list)) ELSE wlStorage

\* Mutant of SameEntry: the type is not compared.
SameEntry_idOnly(w, id, type) == w.id = id

\* w.id === id && w.type === type
SameEntry(w, id, type) == w.id = id /\ w.type = type

\* watchlist.some(w => w.id === id && w.type === type)
isInWatchlist(list, id, type) == \E k \in 1..Len(list) : SameEntry(list[k], id, type)

WlIdle ==
    /\ wlPc = "off"
    /\ watchlist = <<>>
    /\ wlIsLoaded = FALSE
    /\ wlStorage = Undefined
    /\ wlNow = 0

\* The page has not been opened yet; localStorage holds no watchlist.
WlInit ==
    /\ wlPc = "unmounted"
    /\ watchlist = <<>>
    /\ wlIsLoaded = FALSE
    /\ wlStorage = Undefined
    /\ wlNow = 0

\* First render of a component using the hook: useState([]), useState(false).
WatchlistRender ==
    /\ wlPc = "unmounted"
    /\ wlPc' = "rendered"
    /\ watchlist' = <<>>
    /\ wlIsLoaded' = FALSE
    /\ UNCHANGED <<wlStorage, wlNow>>
    /\ UNCHANGED <<aggVars, ruleVars, cycleVars, hookVars, indVars, sentVars, cfgVars>>

\* The effects after the first render: the load effect, then (isLoaded now
\* true) the save effect.
WatchlistLoadEffect ==
    /\ wlPc = "rendered"
    /\ wlPc' = "loaded"
    /\ watchlist' = getSavedWatchlist(<<>>)
    /\ wlIsLoaded' = TRUE
    /\ wlStorage' = WatchlistAfterSave(TRUE, getSavedWatchlist(<<>>))
    /\ UNCHANGED wlNow
    /\ UNCHANGED <<aggVars, ruleVars, cycleVars, hookVars, indVars, sentVars, cfgVars>>

\* setWatchlist(prev => next), followed by the save effect.
SetWatchlist(next) ==
    /\ wlPc \in {"rendered", "loaded"}
    /\ watchlist' = next
    /\ wlStorage' = WatchlistAfterSave(wlIsLoaded, next)
    /\ UNCHANGED <<wlPc, wlIsLoaded>>
    /\ UNCHANGED <<aggVars, ruleVars, cycleVars, hookVars, indVars, sentVars, cfgVars>>

\* addToWatchlist(asset): new Date() is read only when an entry is appended;
\* the clock has moved on by then.
addToWatchlist(asset) ==
    IF isInWatchlist(watchlist, asset.id, asset.type)
    THEN SetWatchlist(watchlist) /\ UNCHANGED wlNow
    ELSE /\ wlNow < MaxAdds
         /\ wlNow' = wlNow + 1
         /\ SetWatchlist(Append(watchlist,
                [id |-> asset.id, type |-> asset.type, addedAt |-> wlNow + 1]))

\* removeFromWatchlist(id, type)
removeFromWatchlist(id, type) ==
    /\ SetWatchlist(SelectSeq(watchlist, LAMBDA w : ~SameEntry(w, id, type)))
    /\ UNCHANGED wlNow

\* The page is closed or reloaded: the component state is gone, localStorage
\* stays.
WatchlistUnmount ==
    /\ wlPc \in {"rendered", "loaded"}
    /\ wlPc' = "unmounted"
    /\ watchlist' = <<>>
    /\ wlIsLoaded' = FALSE
    /\ UNCHANGED <<wlStorage, wlNow>>
    /\ UNCHANGED <<aggVars, ruleVars, cycleVars, hookVars, indVars, sentVars, cfgVars>>

NextWatchlist ==
    \/ WatchlistRender
    \/ WatchlistLoadEffect
    \/ \E asset \in Assets : addToWatchlist(asset)
    \/ \E id \in AssetIds, type \in AssetTypes : removeFromWatchlist(id, type)
    \/ WatchlistUnmount

(***************************************************************************)
(* Specifications                                                          *)
(***************************************************************************)

\* Every part added after the first three is at rest.
RestIdle == HookIdle /\ IndIdle /\ SentIdle /\ CfgIdle /\ WlIdle

\* calculateCombinedSignal over every list of up to MaxIndicators results.
InitAgg == AggInit /\ RuleIdle /\ CycleIdle /\ RestIdle

SpecAgg == InitAgg /\ [][NextAgg]_vars

\* The alert-check handlers with overlapping requests.
Init == AggIdle /\ RuleIdle /\ CycleInit /\ overlapping = TRUE /\ RestIdle

Spec == Init /\ [][NextCycle]_vars

\* The alert-check handlers with one request at a time.
InitSeq == AggIdle /\ RuleIdle /\ CycleInit /\ overlapping = FALSE /\ RestIdle

SpecSeq == InitSeq /\ [][NextCycle]_vars

\* The history of either store under a run of addAlertToHistory calls.
SpecStore == InitSeq /\ [][addAlertToHistory]_vars

\* The rule evaluators over every configuration and snapshot of RuleInit.
InitRules == AggIdle /\ RuleInit /\ CycleIdle /\ RestIdle

SpecRules == InitRules /\ [][NextRules]_vars

\* The useIndicators hook from a browser without a stored preference.
InitHook == AggIdle /\ RuleIdle /\ CycleIdle /\ HookInit /\ IndIdle /\ SentIdle /\ CfgIdle /\ WlIdle

SpecHook == InitHook /\ [][NextHook]_vars

\* Each indicator's calculate over the price series of IndInit.
InitInd == AggIdle /\ RuleIdle /\ CycleIdle /\ HookIdle /\ IndInit /\ SentIdle /\ CfgIdle /\ WlIdle

SpecInd == InitInd /\ [][NextInd]_vars

\* fetchMarketSentiment over the upstream answers of SentInit.
InitSent == AggIdle /\ RuleIdle /\ CycleIdle /\ HookIdle /\ IndIdle /\ SentInit /\ CfgIdle /\ WlIdle

SpecSent == InitSent /\ [][fetchMarketSentiment]_vars

\* Requests to /api/alerts/config, one after another.
InitConfig == AggIdle /\ RuleIdle /\ CycleIdle /\ HookIdle /\ IndIdle /\ SentIdle /\ CfgInit /\ WlIdle

SpecConfig == InitConfig /\ [][NextConfig]_vars

\* The watchlist hook over page loads, additions and removals.
InitWatchlist == AggIdle /\ RuleIdle /\ CycleIdle /\ HookIdle /\ IndIdle /\ SentIdle /\ CfgIdle /\ WlInit

SpecWatchlist == InitWatchlist /\ [][NextWatchlist]_vars

\* The check cycles in the surroundings the liveness of alerting is stated
\* for: the scheduler's requests are authorised, the stored configuration
\* is read and has Telegram enabled and a chat id, the market data matches
\* an enabled rule, and a delivery attempt fails only while a further cycle
\* is still to come.
LiveRequest(p) ==
    \/ Request(p) /\ pc'[p] = "config"
    \/ MemRequest(p) /\ (pc'[p] = "fetch" \/ loc'[p].response = "Too soon since last alert")

LiveGetConfig(p) == GetConfig(p) /\ pc'[p] = "cooldown"

LiveFetchAndCheck(p) == (FetchAndCheck(p) \/ MemFetchAndCheck(p)) /\ pc'[p] = "send"

LiveSendTelegram(p) ==
    SendTelegram(p) /\ (deliveries' = deliveries => started < MaxRequests)

LiveRecord(p) == SaveToHistory(p) \/ MemRecord(p)

NextLive ==
    \/ \E p \in Procs : LiveRequest(p)
    \/ \E p \in Procs : LiveGetConfig(p)
    \/ \E p \in Procs : CheckCooldown(p)
    \/ \E p \in Procs : LiveFetchAndCheck(p)
    \/ \E p \in Procs : LiveSendTelegram(p)
    \/ \E p \in Procs : LiveRecord(p)
    \/ \E p \in Procs : Respond(p)
    \/ Tick

\* The configuration stored when the process starts has Telegram enabled
\* and a chat id is set, in the row or in the environment.
InitLive ==
    /\ AggIdle /\ RuleIdle /\ CycleInit /\ overlapping \in BOOLEAN /\ RestIdle
    /\ IF variant = "supabase"
       THEN /\ env.supabase
            /\ configRows # <<>>
            /\ configRows[1].telegram_enabled
            /\ configRows[1].telegram_chat_id \/ env.chatId
       ELSE configRows[1].enabled /\ env.chatId

\* A handler's awaits complete, the scheduler keeps invoking the endpoint
\* and the clock keeps advancing.
FairLive ==
    /\ WF_vars(Tick)
    /\ \A p \in Procs :
          /\ WF_vars(LiveRequest(p))
          /\ WF_vars(LiveGetConfig(p))
          /\ WF_vars(CheckCooldown(p))
          /\ WF_vars(LiveFetchAndCheck(p))
          /\ WF_vars(LiveSendTelegram(p))
          /\ WF_vars(LiveRecord(p))
          /\ WF_vars(Respond(p))

SpecLive == InitLive /\ [][NextLive]_vars /\ FairLive

(***************************************************************************)
(* Properties of the alert-check handlers (checked under SpecSeq and Spec) *)
(***************************************************************************)

RateLimitedResponses ==
    {"Rate limited - too soon since last alert", "Too soon since last alert"}

\* The newest delivered history entry is a cooldown or more in the past, or
\* there is none.
ElapsedEnough ==
    NewestDelivered = <<>> \/ now - Val(NewestDelivered) >= Cooldown

\* The step in which handler p leaves its cooldown check to fetch the market
\* data, and the step in which it answers that the alert is rate limited.
PassesCooldownCheck(p) == pc[p] # "fetch" /\ pc'[p] = "fetch"
RefusedByCooldownCheck(p) ==
    /\ pc[p] # "done" /\ pc'[p] = "done"
    /\ loc'[p].response \in RateLimitedResponses

\* History entries (by index) written by a check cycle, not by a test alert.
CycleRecords == {i \in 1..Len(history) : audit[i].seen >= 0}
DeliveredRecords == {i \in 1..Len(history) : WasSent(history[i])}

C3_DeliveredRecordsCooldownApart ==
    \A i, j \in DeliveredRecords :
        i # j => Abs(CreatedAt(history[i]) - CreatedAt(history[j])) >= Cooldown

\* C4: two delivered entries, the later one written by a check cycle, lie
\* inside one cooldown window only if the later cycle read the last-alert
\* time before the earlier entry was appended: overlapping cycles that both
\* read first and write afterwards are the one way to such a state.
C4_SharedWindowOnlyByRace ==
    \A i \in DeliveredRecords, j \in DeliveredRecords \cap CycleRecords :
        (/\ audit[i].seq < audit[j].seq
         /\ CreatedAt(history[j]) - CreatedAt(history[i]) < Cooldown)
        => audit[j].seen < audit[i].seq

\* Two check cycles have each delivered and recorded an alert, both inside
\* one cooldown window, each having read the last-alert time before the
\* other's entry was appended.
C4_Witness_TwoDeliveredInWindow ==
    \E i, j \in DeliveredRecords \cap CycleRecords :
        /\ audit[i].seq < audit[j].seq
        /\ CreatedAt(history[j]) - CreatedAt(history[i]) < Cooldown
        /\ audit[j].seen < audit[i].seq
        /\ deliveries >= 2

\* The history holds an entry with what handler p evaluated and what the
\* delivery returned.
RecordedOutcome(p) ==
    LET l == loc[p]
    IN IF variant = "memory"
       THEN \E i \in 1..Len(history) :
               /\ history[i].alertType = Val(l.alertCheck).alertType
               /\ history[i].reason = Val(l.alertCheck).reason
               /\ history[i].sent = Val(l.result).success
       ELSE \E i \in 1..Len(history) :
               /\ history[i].alert_type = Val(l.alertCheck).alertType
               /\ history[i].trigger_reason = Val(l.alertCheck).reason
               /\ history[i].fear_greed_value = Val(l.sentiment).fearGreed
               /\ history[i].funding_rate = Val(l.sentiment).fundingRate
               /\ history[i].long_short_ratio = Val(l.sentiment).longShortRatio
               /\ history[i].btc_change_24h = Val(l.sentiment).priceChange24h
               /\ history[i].telegram_sent = Val(l.result).success
               /\ history[i].telegram_message_id = Val(l.result).messageId
               /\ history[i].telegram_error = Val(l.result).error
               /\ Val(l.result).success = (Val(l.result).messageId # <<>>)
               /\ Val(l.result).success = (Val(l.result).error = <<>>)

\* C5: a check cycle that attempted delivery has, when it answers, appended
\* exactly one history entry, carrying the alert type, the reason, the metric
\* snapshot and the delivery outcome, whether the delivery succeeded or
\* failed.
C5_EveryAttemptRecorded ==
    \A p \in Procs :
        (pc[p] = "done" /\ loc[p].result # <<>>)
        => (loc[p].wrote = 1 /\ RecordedOutcome(p))

\* C6: a check cycle whose configuration was missing or could not be read
\* answers with an error, having sent nothing and recorded nothing.
C6_UnreadableConfigReported ==
    \A p \in Procs :
        (pc[p] = "done" /\ loc[p].cfgRead \in {"default", "created"})
        => /\ loc[p].response = "Config not found"
           /\ loc[p].result = <<>>
           /\ loc[p].wrote = 0

\* C20: the history is append-only: every alert ever handed to
\* addAlertToHistory and stored is still in the history, with the field
\* values it was stored with.
C20_HistoryAppendOnly ==
    \A n \in 1..RowsEver :
        \E i \in 1..Len(history) : history[i] = AlertAt(StartTime + n - 1)

(***************************************************************************)
(* Properties of the indicators (checked under SpecInd)                    *)
(***************************************************************************)

InsufficientDescriptions == {"Insufficient data", "Volume data unavailable"}

\* Every window lies within the series and every indexed element exists:
\* the series is long enough for the computation of the indicator.
Sufficient(id, len) ==
    /\ \A w \in WindowsOf(id, len) : w >= 1 /\ w <= len
    /\ \A i \in DirectReads(id, len) : i >= 0 /\ i < len

\* C12: an indicator called on a series too short for its computation (a
\* window longer than the series, or an indexed element that does not
\* exist) returns neutral with a description saying that data is missing,
\* and reads no element outside the series.
C12_ShortSeriesInsufficient ==
    (indOut # <<>> /\ ~Sufficient(Val(indOut).id, Len(prices)))
    => /\ Val(indOut).result.signal = "neutral"
       /\ Val(indOut).result.description \in InsufficientDescriptions
       /\ ~Val(indOut).outside

\* C13: RSI on a strictly increasing series of at least 15 prices returns
\* the value 100 (10000 hundredths) and the signal strong_sell.
C13_RisingSeriesRsi100 ==
    (/\ indOut # <<>>
     /\ Val(indOut).id = "rsi"
     /\ Len(prices) >= 15
     /\ \A i \in 1..(Len(prices) - 1) : prices[i] < prices[i + 1])
    => /\ Val(indOut).result.value = <<100 * 100>>
       /\ Val(indOut).result.signal = "strong_sell"

(***************************************************************************)
(* Properties of useIndicators (checked under SpecHook)                    *)
(***************************************************************************)

\* C11: with no indicator enabled, the signal calculateSignal returns has
\* score 0, overall neutral, the three counts 0 and an empty breakdown.
C11_NoIndicatorsNeutralZero ==
    (signal # <<>> /\ FilterEnabled(indicators) = <<>>)
    => Val(signal) = [overall |-> "neutral", score |-> 0, bullishCount |-> 0,
                      bearishCount |-> 0, neutralCount |-> 0, indicators |-> <<>>]

\* The preference has been loaded, every indicator has been disabled and a
\* signal has been calculated.
C11_Witness_AllDisabled ==
    /\ hookPc = "loaded"
    /\ Len(indicators) = NumIndicators
    /\ FilterEnabled(indicators) = <<>>
    /\ signal # <<>>

(***************************************************************************)
(* Properties of the rule evaluators (checked under SpecRules)             *)
(***************************************************************************)

TheConfig == RuleConfig(ruleIn.flags, ruleIn.thresholds)

\* Rule k of the documented table matches the snapshot: its flag is on, its
\* metric is present and the value is at or beyond one of its thresholds.
RuleMatches(k) ==
    LET c == TheConfig
        d == ruleIn.data
    IN CASE k = 1 -> /\ c.fear_greed_extreme /\ d.fearGreed # Undefined
                     /\ \/ Val(d.fearGreed) <= c.fear_greed_buy_threshold
                        \/ Val(d.fearGreed) >= c.fear_greed_sell_threshold
         [] k = 2 -> /\ c.funding_rate_extreme /\ d.fundingRate # Undefined
                     /\ \/ Val(d.fundingRate) <= c.funding_rate_low_threshold
                        \/ Val(d.fundingRate) >= c.funding_rate_high_threshold
         [] k = 3 -> /\ c.long_short_extreme /\ d.longShortRatio # Undefined
                     /\ \/ Val(d.longShortRatio) <= c.long_short_low_threshold
                        \/ Val(d.longShortRatio) >= c.long_short_high_threshold
         [] k = 4 -> /\ c.price_change_enabled /\ d.priceChange24h # Undefined
                     /\ \/ Val(d.priceChange24h) <= -c.price_change_threshold
                        \/ 2 * Val(d.priceChange24h) >= 3 * c.price_change_threshold

MatchingRules == {k \in 1..4 : RuleMatches(k)}

FirstMatch == CHOOSE k \in MatchingRules : \A j \in MatchingRules : k <= j

\* The alert type the table gives rule k on this snapshot.
TableType(k) ==
    LET c == TheConfig
        d == ruleIn.data
    IN CASE k = 1 -> IF Val(d.fearGreed) <= c.fear_greed_buy_threshold THEN "BUY" ELSE "SELL"
         [] k = 2 -> IF Val(d.fundingRate) <= c.funding_rate_low_threshold
                     THEN "BUY" ELSE "CAUTION"
         [] k = 3 -> IF Val(d.longShortRatio) <= c.long_short_low_threshold
                     THEN "BUY" ELSE "CAUTION"
         [] k = 4 -> IF Val(d.priceChange24h) <= -c.price_change_threshold
                     THEN "BUY" ELSE "CAUTION"

\* The rule a reason text of checkAlertConditions speaks about.
RuleOfReason(r) ==
    CASE r.before \in {"Extreme Fear detected (F&G: ", "Extreme Greed detected (F&G: "} -> 1
      [] r.before \in {"Negative Funding Rate (", "High Funding Rate ("} -> 2
      [] r.before \in {"Crowded Shorts (L/S: ", "Crowded Longs (L/S: "} -> 3
      [] r.before \in {"Large Price Drop (", "Large Price Rally ("} -> 4
      [] OTHER -> 0

\* C1: when two or more enabled rules match at once, checkAlertConditions
\* returns the alert type and the reason of the matching rule of highest
\* priority (fear/greed, funding rate, long/short ratio, price change) only.
C1_FirstMatchWins ==
    (rulePc = "done" /\ ruleOut.fn = "checkAlertConditions"
        /\ Cardinality(MatchingRules) >= 2) =>
        /\ ruleOut.result.shouldSend
        /\ ruleOut.result.alertType = TableType(FirstMatch)
        /\ RuleOfReason(ruleOut.result.reason) = FirstMatch

C1_Witness_FearBeforeFunding ==
    /\ rulePc = "done"
    /\ ruleOut.fn = "checkAlertConditions"
    /\ ruleIn.thresholds = DefaultThresholds
    /\ ruleIn.flags.fear_greed_extreme /\ ruleIn.flags.funding_rate_extreme
    /\ ruleIn.data.fearGreed = Some(10)
    /\ ruleIn.data.fundingRate = Some(20)
    /\ ruleOut.result.alertType = "BUY"
    /\ ruleOut.result.reason.before = "Extreme Fear detected (F&G: "
    /\ ruleOut.result.reason.value = 10

\* The result of checkAlertConditions follows the rule table on this
\* snapshot when at most one rule matches: no match gives shouldSend = false
\* with type INFO; a match gives BUY at or below the rule's low threshold
\* and the rule's other type at or above its high threshold.  With
\* firstTestOnly the high threshold counts only where the low one is not met.
FollowsTable(firstTestOnly) ==
    LET c == TheConfig
        d == ruleIn.data
        r == ruleOut.result
        Row(low, high, highType) ==
            /\ r.shouldSend
            /\ low => r.alertType = "BUY"
            /\ (high /\ (firstTestOnly => ~low)) => r.alertType = highType
    IN /\ MatchingRules = {} => (~r.shouldSend /\ r.alertType = "INFO")
       /\ MatchingRules = {1} =>
             Row(Val(d.fearGreed) <= c.fear_greed_buy_threshold,
                 Val(d.fearGreed) >= c.fear_greed_sell_threshold, "SELL")
       /\ MatchingRules = {2} =>
             Row(Val(d.fundingRate) <= c.funding_rate_low_threshold,
                 Val(d.fundingRate) >= c.funding_rate_high_threshold, "CAUTION")
       /\ MatchingRules = {3} =>
             Row(Val(d.longShortRatio) <= c.long_short_low_threshold,
                 Val(d.longShortRatio) >= c.long_short_high_threshold, "CAUTION")
       /\ MatchingRules = {4} =>
             Row(Val(d.priceChange24h) <= -c.price_change_threshold,
                 2 * Val(d.priceChange24h) >= 3 * c.price_change_threshold, "CAUTION")

\* C19: when exactly one rule matches, checkAlertConditions gives BUY at or
\* below the rule's low threshold and SELL (fear/greed) or CAUTION at or
\* above its high threshold, the price rally at 1.5 times the threshold;
\* when no rule matches it gives shouldSend = false with type INFO.
C19_SingleRuleTable ==
    (rulePc = "done" /\ ruleOut.fn = "checkAlertConditions") => FollowsTable(FALSE)

\* C19, amended: the same table, where a value that meets both thresholds
\* of the one matching rule gets the type of the low threshold, BUY.
C19_SingleRuleTableLowFirst ==
    (rulePc = "done" /\ ruleOut.fn = "checkAlertConditions") => FollowsTable(TRUE)

\* Only the price rule matches, on a rally of 1.5 times the threshold.
C19_Witness_RallyAtOneAndAHalf ==
    /\ rulePc = "done"
    /\ ruleOut.fn = "checkAlertConditions"
    /\ MatchingRules = {4}
    /\ ruleIn.thresholds = DefaultThresholds
    /\ ruleIn.data.priceChange24h = Some(15)
    /\ ruleOut.result.alertType = "CAUTION"

(***************************************************************************)
(* Properties of the signal aggregator (checked under SpecAgg)             *)
(***************************************************************************)

\* Sum of the documented weights over the results that were aggregated.
WeightSum == 2 * results["strong_buy"] + results["buy"]
             - results["sell"] - 2 * results["strong_sell"]

\* The five-way classification by the documented cutoffs.
CutoffClass(score) ==
    IF score >= 50 THEN "strong_buy"
    ELSE IF score >= 20 THEN "buy"
    ELSE IF score <= -50 THEN "strong_sell"
    ELSE IF score <= -20 THEN "sell"
    ELSE "neutral"

\* C7: for a non-empty list of N results the returned score is an integer
\* nearest to 100 * (sum of weights) / (2 * N), and N results that are all
\* strong_buy give score 100, overall strong_buy and tallies N, 0, 0.
C7_ScoreIsRoundedWeightedMean ==
    (aggPc = "done" /\ NumResults > 0) =>
        /\ 2 * Abs(combined.score * 2 * NumResults - 100 * WeightSum) <= 2 * NumResults
        /\ results["strong_buy"] = NumResults =>
              /\ combined.score = 100
              /\ combined.overall = "strong_buy"
              /\ combined.bullishCount = NumResults
              /\ combined.bearishCount = 0
              /\ combined.neutralCount = 0

C7_Witness_AllStrongBuy ==
    /\ aggPc = "done"
    /\ NumResults = 3
    /\ results["strong_buy"] = 3
    /\ combined.score = 100
    /\ combined.bullishCount = 3

C9_TalliesCountClassifications ==
    aggPc = "done" =>
        /\ combined.bullishCount + combined.bearishCount + combined.neutralCount = NumResults
        /\ combined.bullishCount = results["strong_buy"] + results["buy"]
        /\ combined.bearishCount = results["strong_sell"] + results["sell"]
        /\ combined.neutralCount = results["neutral"]

C9_Witness_StrongCountsOnce ==
    /\ aggPc = "done"
    /\ results["strong_buy"] = 2
    /\ results["strong_sell"] = 1
    /\ results["neutral"] = 1
    /\ NumResults = 4
    /\ combined.bullishCount = 2

\* C10: the returned score lies in -100..100, for the empty list too.
C10_ScoreInRange ==
    aggPc = "done" => combined.score \in -100..100

C10_Witness_Extremes ==
    /\ aggPc = "done"
    /\ NumResults = 2
    /\ results["strong_sell"] = 2
    /\ combined.score = -100

(***************************************************************************)
(* Properties of the market sentiment (checked under SpecSent)             *)
(***************************************************************************)

PresentMetrics ==
    {m \in {"fearGreed", "fundingRate", "longShortRatio"} : Val(upstream)[m] # Undefined}

\* C14: absent metrics are left out of the weighting: whenever every metric
\* that is present lies in its most bullish band the overall score is 100,
\* and in its most bearish band -100.
C14_AbsentMetricsExcluded ==
    (marketSentiment # <<>> /\ PresentMetrics # {})
    => LET u == Val(upstream)
           bullish == /\ u.fearGreed # Undefined => Val(u.fearGreed) <= 20
                      /\ u.fundingRate # Undefined => Val(u.fundingRate) <= -5
                      /\ u.longShortRatio # Undefined => Val(u.longShortRatio) <= 5
           bearish == /\ u.fearGreed # Undefined => Val(u.fearGreed) >= 80
                      /\ u.fundingRate # Undefined => Val(u.fundingRate) >= 10
                      /\ u.longShortRatio # Undefined => Val(u.longShortRatio) >= 30
       IN /\ bullish => Val(marketSentiment).overallScore = 100
          /\ bearish => Val(marketSentiment).overallScore = -100

\* C15: the overall sentiment signal is the class the aggregator's cutoffs
\* (50, 20, -20, -50) give the overall sentiment score.
C15_SameCutoffsAsAggregator ==
    marketSentiment # <<>>
    => Val(marketSentiment).overallSignal = CutoffClass(Val(marketSentiment).overallScore)

\* C16: every signal of the sentiment result, per metric and overall, is one
\* of the five levels.
C16_SignalsAreLevels ==
    marketSentiment # <<>>
    => /\ Val(marketSentiment).overallSignal \in Signals
       /\ \A m \in PresentMetrics : Val(Val(marketSentiment)[m]).signal \in Signals

\* C17: the fear/greed signal follows the bands <= 20 strong_buy, <= 35 buy,
\* >= 80 strong_sell, >= 65 sell, else neutral, and is the band the overall
\* score counts the metric in.
C17_FearGreedBands ==
    (marketSentiment # <<>> /\ Val(marketSentiment).fearGreed # Undefined)
    => LET fg == Val(Val(marketSentiment).fearGreed)
       IN /\ fg.signal = (IF fg.value <= 20 THEN "strong_buy"
                          ELSE IF fg.value <= 35 THEN "buy"
                          ELSE IF fg.value >= 80 THEN "strong_sell"
                          ELSE IF fg.value >= 65 THEN "sell"
                          ELSE "neutral")
          /\ fg.signal = (CASE FearGreedPoints(fg.value) = 40 -> "strong_buy"
                            [] FearGreedPoints(fg.value) = 20 -> "buy"
                            [] FearGreedPoints(fg.value) = 0 -> "neutral"
                            [] FearGreedPoints(fg.value) = -20 -> "sell"
                            [] FearGreedPoints(fg.value) = -40 -> "strong_sell")

(***************************************************************************)
(* Properties of the alert-config endpoint (checked under SpecConfig)      *)
(***************************************************************************)

\* Bodies that carry a cooldown below 5, alone or with a fear/greed buy
\* threshold.
SmallCooldownBodies ==
    [telegram_enabled : {Undefined}, telegram_chat_id : {Undefined},
     fear_greed_buy_threshold : OptionalOf({-1, 100}),
     fear_greed_sell_threshold : {Undefined},
     long_short_high_threshold : {Undefined}, long_short_low_threshold : {Undefined},
     min_minutes_between_alerts : {Some(4)}]

\* C18: the stored min_minutes_between_alerts is at least 5 after any
\* sequence of POST and PUT requests, and a POST carrying a smaller value is
\* answered with an error and leaves every field of the row as it was.
C18_CooldownAtLeastFive ==
    /\ [](cfgRow # Undefined => Val(cfgRow).min_minutes_between_alerts >= 5)
    /\ [][\A updates \in SmallCooldownBodies :
             POST(Some(updates)) => /\ Val(cfgResponse').status = 400
                                    /\ Val(cfgResponse').error # Undefined
                                    /\ cfgRow' = cfgRow]_vars

\* A request carrying a cooldown below 5 has just been refused, after an
\* earlier request had set the cooldown to 5.
C18_Witness_SmallCooldownRefused ==
    /\ cfgRow # Undefined
    /\ Val(cfgRow).min_minutes_between_alerts = 5
    /\ cfgResponse # <<>>
    /\ Val(cfgResponse).error = Some("Minimum time between alerts must be at least 5 minutes")

\* C21: after any sequence of POST and PUT requests the stored thresholds are
\* in their ranges: the fear/greed buy and sell thresholds in 0..100, the
\* long/short high and low thresholds positive.
C21_ThresholdsInRange ==
    cfgRow # Undefined
    => /\ Val(cfgRow).fear_greed_buy_threshold \in 0..100
       /\ Val(cfgRow).fear_greed_sell_threshold \in 0..100
       /\ Val(cfgRow).long_short_high_threshold > 0
       /\ Val(cfgRow).long_short_low_threshold > 0

(***************************************************************************)
(* Further properties of the rule evaluators (checked under SpecRules)     *)
(***************************************************************************)

\* Rule k may be tried: its flag is on and its metric is in the snapshot.
RuleOpen(k) ==
    CASE k = 1 -> ruleIn.flags.fear_greed_extreme /\ ruleIn.data.fearGreed # Undefined
      [] k = 2 -> ruleIn.flags.funding_rate_extreme /\ ruleIn.data.fundingRate # Undefined
      [] k = 3 -> ruleIn.flags.long_short_extreme /\ ruleIn.data.longShortRatio # Undefined
      [] k = 4 -> ruleIn.flags.price_change_enabled /\ ruleIn.data.priceChange24h # Undefined

\* C22: a rule of checkAlertConditions whose flag is false or whose metric is
\* absent never fires: the result is that of the first rule in priority
\* order that is open and matches, and shouldSend = false with type INFO
\* when there is none, as when all four flags are false.
C22_ClosedRuleNeverFires ==
    (rulePc = "done" /\ ruleOut.fn = "checkAlertConditions")
    => LET r == ruleOut.result
           fired == RuleOfReason(r.reason)
           candidates == {k \in 1..4 : RuleOpen(k) /\ RuleMatches(k)}
       IN /\ fired # 0 => RuleOpen(fired)
          /\ r.shouldSend = (fired # 0)
          /\ fired = IF candidates = {} THEN 0
                     ELSE CHOOSE k \in candidates : \A j \in candidates : k <= j
          /\ (\A k \in 1..4 : ~RuleOpen(k)) => (~r.shouldSend /\ r.alertType = "INFO")

\* The long/short rule is switched off while the ratio is at its low
\* threshold, and the price rule fires instead.
C22_Witness_FallsThroughClosedRule ==
    /\ rulePc = "done"
    /\ ruleOut.fn = "checkAlertConditions"
    /\ ruleIn.thresholds = DefaultThresholds
    /\ ~ruleIn.flags.fear_greed_extreme /\ ~ruleIn.flags.funding_rate_extreme
    /\ ~ruleIn.flags.long_short_extreme /\ ruleIn.flags.price_change_enabled
    /\ ruleIn.data.fearGreed = Some(10)
    /\ ruleIn.data.longShortRatio = Some(5)
    /\ ruleIn.data.priceChange24h = Some(-10)
    /\ RuleOfReason(ruleOut.result.reason) = 4

\* C27: with alerts enabled and the default thresholds, shouldSendAlert and
\* checkAlertConditions return the same shouldSend and the same alertType on
\* every snapshot and every combination of the four flags.
C27_LegacyAgreesWithDefault ==
    (rulePc = "done" /\ ruleIn.enabled /\ ruleIn.thresholds = DefaultThresholds)
    => LET legacy == shouldSendAlert(LegacyConfig(TRUE, ruleIn.flags), ruleIn.data)
           current == checkAlertConditions(RuleConfig(ruleIn.flags, DefaultThresholds),
                                           ruleIn.data)
       IN /\ ruleOut.result \in {legacy, current}
          /\ legacy.shouldSend = current.shouldSend
          /\ legacy.alertType = current.alertType

(***************************************************************************)
(* Further properties of the alert-check handlers                          *)
(***************************************************************************)

\* The step in which handler p, its delivery having failed, leaves the
\* recording of the outcome.
RecordsFailure(p) ==
    /\ pc[p] = "record" /\ pc'[p] = "done"
    /\ ~Val(loc[p].result).success

\* The step leaves the last alert, as the cooldown check reads it, alone.
CooldownNotStarted ==
    /\ NewestDelivered' = NewestDelivered
    /\ lastAlertTime' = lastAlertTime

\* C23: a check cycle whose delivery fails is recorded with sent = false and
\* does not start the cooldown: the history gains one entry that is not
\* delivered, the last alert stays what it was, and a later cycle is refused
\* by the cooldown check only on account of a delivered entry.
C23_FailureRecordedNoCooldown ==
    [][\A p \in Procs :
          /\ RecordsFailure(p) =>
                /\ Len(history') = Len(history) + 1
                /\ \A i \in 1..Len(history') :
                      CreatedAt(history'[i]) = now /\ audit'[i].seq = RowsEver + 1
                      => ~WasSent(history'[i])
                /\ CooldownNotStarted
          /\ RefusedByCooldownCheck(p) =>
                \E i \in DeliveredRecords : now - CreatedAt(history[i]) < Cooldown]_vars

\* The answers of a check cycle that stops before it fetches anything:
\* alerts switched off, no chat id, or too soon after the last alert.
EarlyResponses ==
    {"Telegram alerts disabled", "Alerts disabled", "No chat ID configured",
     "TELEGRAM_CHAT_ID not configured"} \cup RateLimitedResponses

EndsEarly(p) ==
    /\ pc[p] # "done" /\ pc'[p] = "done"
    /\ loc'[p].response \in EarlyResponses

\* A cycle that has stopped early has fetched no sentiment, attempted no
\* delivery and written no history entry.
EarlyStopDidNothing ==
    \A p \in Procs :
        (pc[p] = "done" /\ loc[p].response \in EarlyResponses)
        => /\ loc[p].sentiment = <<>> /\ loc[p].alertCheck = <<>>
           /\ loc[p].result = <<>> /\ loc[p].wrote = 0

C24_CronSecretGuardsEndpoint ==
    [][env.cronSecret =>
          /\ \A p \in Procs :
                (pc[p] = "idle" /\ pc'[p] # "idle" /\ variant = "supabase")
                => \/ pc'[p] = "config"
                   \/ pc'[p] = "done" /\ loc'[p].response = "Unauthorized"
          /\ ForceAlert => /\ deliveries' = deliveries
                           /\ snapshots' = snapshots
                           /\ history' = history]_vars

(***************************************************************************)
(* Further properties of the alert-config endpoint (under SpecConfig)      *)
(***************************************************************************)

\* C25: in every response of the endpoint that carries a config,
\* telegram_chat_id is null or the mask '***configured***'.
C25_ChatIdNeverExposed ==
    (cfgResponse # <<>> /\ Val(cfgResponse).config # Undefined)
    => Val(Val(cfgResponse).config).telegram_chat_id
          \in {Undefined, Some("***configured***")}

(***************************************************************************)
(* Further properties of useIndicators (checked under SpecHook)            *)
(***************************************************************************)

EnabledIds(list) == {list[k].id : k \in {j \in 1..Len(list) : list[j].enabled}}

Toggled(list, id) ==
    [k \in 1..Len(list) |->
        IF list[k].id = id THEN [list[k] EXCEPT !.enabled = ~list[k].enabled]
        ELSE list[k]]

\* C28: the enabled set survives a reload: when the hook is mounted again
\* over a saved preference, the indicators it loads are enabled exactly as
\* saved, the empty set included; and toggling one id twice restores the
\* list.
C28_PreferenceSurvivesReload ==
    [][/\ (hookPc = "rendered" /\ hookPc' = "loaded" /\ storage # Undefined)
          => EnabledIds(indicators') = {Val(storage)[k] : k \in 1..Len(Val(storage))}
       /\ \A id \in 1..NumIndicators :
             toggleIndicator(id) => /\ indicators' = Toggled(indicators, id)
                                    /\ Toggled(indicators', id) = indicators]_vars

(***************************************************************************)
(* Properties of useWatchlist (checked under SpecWatchlist)                *)
(***************************************************************************)

NoDuplicateEntries(list) ==
    \A i, j \in 1..Len(list) :
        (list[i].id = list[j].id /\ list[i].type = list[j].type) => i = j

HoldsEntry(list, id, type) ==
    \E k \in 1..Len(list) : list[k].id = id /\ list[k].type = type

\* C29: the watchlist holds at most one entry per (id, type); once loading
\* has completed the list read back from storage equals the list in memory;
\* adding an asset already present leaves the list unchanged; removing
\* deletes the entries with that (id, type) and keeps every other entry in
\* its place.
C29_WatchlistWellFormed ==
    /\ [](/\ NoDuplicateEntries(watchlist)
          /\ wlPc = "loaded" => (wlStorage # Undefined /\ parse(Val(wlStorage)) = watchlist))
    /\ [][/\ \A asset \in Assets :
               (addToWatchlist(asset) /\ HoldsEntry(watchlist, asset.id, asset.type))
                   => watchlist' = watchlist
          /\ \A id \in AssetIds, type \in AssetTypes :
               removeFromWatchlist(id, type)
                   => watchlist' = SelectSeq(watchlist,
                                       LAMBDA w : ~(w.id = id /\ w.type = type))]_vars

\* The loaded list holds one id under both types, and an entry appended
\* between the two has been removed again.
C29_Witness_RemovedOneOfSameId ==
    /\ wlPc = "loaded"
    /\ Len(watchlist) = 2
    /\ watchlist[1].id = watchlist[2].id
    /\ watchlist[1].addedAt + 1 < watchlist[2].addedAt

(***************************************************************************)
(* Liveness of alerting (checked under SpecLive)                           *)
(***************************************************************************)

\* A further cycle is still to come or has not yet read the last alert
\* time, no delivered alert awaits its record, and the cooldown since the
\* newest delivered alert on record has elapsed.
AlertDue ==
    /\ started < MaxRequests \/ \E p \in Procs : pc[p] \in {"config", "cooldown"}
    /\ \A p \in Procs : pc[p] # "record"
    /\ NewestDelivered = <<>> \/ now - NewestDelivered[1] >= Cooldown

\* C30: a notification is eventually delivered, and whenever the cooldown
\* since the last delivered alert has elapsed and a cycle is still to come,
\* another notification is eventually delivered.
C30_AlertingNeverSuppressed ==
    /\ <>(deliveries > 0)
    /\ \A n \in 0..MaxRequests : (AlertDue /\ deliveries = n) ~> (deliveries > n)

\* A second alert was delivered and recorded once the cooldown after the
\* first had elapsed.
C30_Witness_DeliveredAgainAfterCooldown ==
    /\ deliveries = 2
    /\ \E i, j \in 1..Len(history) :
          /\ WasSent(history[i]) /\ WasSent(history[j])
          /\ CreatedAt(history[j]) - CreatedAt(history[i]) >= Cooldown

====
